---- MODULE Spec2Model ----
(***************************************************************************)
(* A model of ReturnAutomater: the step engine of src/main.rs (the flat    *)
(* plan, the recursive execute-validate-correct procedure and the two      *)
(* control-flow texts STOP_CLIENT / ABORT_PROGRAM) and the rate-limit      *)
(* tracker with the vision-model request loops of src/openai_client.rs.    *)
(***************************************************************************)
EXTENDS Integers, Sequences, FiniteSets, TLC

VARIABLES
    \* ---- step engine (src/main.rs) ----
    plan,        \* plan.steps: the flat sequence of top-level steps
    openai_cfg,  \* TRUE: OpenAIConfig::from_env() gave Some(cfg); FALSE: None
    stack,       \* the active step lists: main's loop, then one frame per corrective list
    pc,          \* where the engine is
    err,         \* the anyhow error being returned (its to_string())
    runResult,   \* <<>> while running, <<"Ok">> or <<"Err", msg>> once main returned
    trace,       \* history: every execute_step call, in order
    \* ---- rate-limit tracker and vision-model calls (src/openai_client.rs) ----
    tracker,     \* RATE_LIMIT_TRACKER: consecutive_failures, last_failure_time
    threshold,   \* OPENAI_RATE_LIMIT_PAUSE_THRESHOLD as should_pause reads it
    max_retries, \* cfg.max_retries
    samples,     \* OPENAI_SAMPLES_PER_CALL, at least 1
    max_conc,    \* OPENAI_MAX_CONCURRENCY, at least 1
    call,        \* the entry point the caller is in, with call_openai_for_point's locals
    tasks,       \* the request loops: the sample tasks of a point call, or loop 0
    \* ---- history of the calls made on the tracker alone ----
    lastOp,      \* the last tracker method called
    lastAnswer,  \* what the last should_pause() returned
    sinceSuccess,\* record_failure calls since the last record_success (or new)
    prevFailures,\* consecutive_failures before the last call
    \* ---- the Mutex around the tracker ----
    lock,        \* the task whose MutexGuard is alive, or LockFree
    \* ---- pure functions: their arguments and what they returned ----
    geom,        \* viewport_to_screen (src/coords.rs)
    agg,         \* aggregate_points (src/openai_client.rs)
    backoff,     \* compute_rate_limit_sleep_ms (src/openai_client.rs)
    \* ---- candidate selection (src/openai_client.rs) ----
    dom          \* click_by_llm_dom_first: the page, the candidates, the choice

engineVars == <<plan, openai_cfg, stack, pc, err, runResult, trace>>

rlVars == <<max_retries, samples, max_conc, call, tasks>>

histVars == <<lastOp, lastAnswer, sinceSuccess, prevFailures>>

vars == <<plan, openai_cfg, stack, pc, err, runResult, trace, tracker, threshold,
          max_retries, samples, max_conc, call, tasks, lastOp, lastAnswer, sinceSuccess,
          prevFailures, lock, geom, agg, backoff, dom>>

pureVars == <<geom, agg, backoff, dom>>

(***************************************************************************)
(* Bounds of the model.                                                    *)
(***************************************************************************)
\* deepest nesting of corrective lists in a plan
MaxDepth == 3
\* top-level steps that follow the first step of a plan
MaxTail == 2
\* largest configured pause threshold besides the default
MaxThreshold == 2
\* largest cfg.max_retries
MaxRetries == 2
\* largest OPENAI_SAMPLES_PER_CALL
MaxSamples == 2
\* largest OPENAI_MAX_CONCURRENCY
MaxConc == 2
\* record_failure calls in a row made on the tracker alone
MaxFailures == 5
\* largest screenshot or window dimension
MaxDim == 3
\* largest absolute value of a viewport coordinate
FarCoord == 100000000
\* most sample points in one list given to aggregate_points
MaxPoints == 4
\* largest attempt number a 429 is answered at
MaxAttempt == 14
\* most elements on a page
MaxCands == 2
\* most HTTP attempts the samples of one call can make: samples * cfg.max_retries
MaxRequests == 4

(***************************************************************************)
(* Steps.  A step is its variant, whether it carries a validation question *)
(* and the corrective list for each answer (empty: none).                  *)
(***************************************************************************)
DriverKinds == {"VisitUrl", "SubmitForm", "ClickStage", "ClickCheckbox",
                "ClickOptionsMenu", "ClickTemplate", "ClickCreate",
                "ClickInvoiceAmount"}

InputKinds == {"TypeText", "TypeKey", "ResetZoom"}

LlmKinds == {"ClickByDom", "ClickByLlm"}

SignalKinds == {"StopClient", "Abort"}

StepKinds == DriverKinds \cup InputKinds \cup LlmKinds \cup SignalKinds
             \cup {"TypeOTP", "Wait", "UpdateSheetCell"}

\* The sentinel of the specification's data model.  The match of execute_step is
\* exhaustive and has no arm for it.
SentinelKinds == {"BeginClient"}

Leaf(k) == [kind |-> k, question |-> FALSE, on_true |-> <<>>, on_false |-> <<>>]

RECURSIVE Nest(_, _)
Nest(d, k) ==
    IF d = 0 THEN Leaf(k)
    ELSE [kind |-> "ClickCreate", question |-> TRUE,
          on_true |-> <<Nest(d - 1, k), Leaf("TypeKey")>>,
          on_false |-> <<Leaf("Wait"), Nest(d - 1, k)>>]

validation_question(step) == step.question

validation_actions(step, answer) == IF answer THEN step.on_true ELSE step.on_false

(***************************************************************************)
(* Error texts.  An error that comes out of an external collaborator       *)
(* carries that collaborator's text, which this code does not constrain.   *)
(***************************************************************************)
STOP_CLIENT == "STOP_CLIENT"

ABORT_PROGRAM == "ABORT_PROGRAM"

ExternalErrTexts == {"webdriver error", STOP_CLIENT, ABORT_PROGRAM}

Ok == [ok |-> TRUE, failed |-> FALSE, msg |-> "", skipped |-> FALSE]

Swallowed == [ok |-> TRUE, failed |-> TRUE, msg |-> "", skipped |-> FALSE]

Failure(m) == [ok |-> FALSE, failed |-> TRUE, msg |-> m, skipped |-> FALSE]

Signal(m) == [ok |-> FALSE, failed |-> FALSE, msg |-> m, skipped |-> FALSE]

\* main.rs 113-116, 123-126: without a configuration the click is skipped.
Skipped == [ok |-> TRUE, failed |-> FALSE, msg |-> "", skipped |-> TRUE]

BeginClientOutcome == {Ok}

\* execute_step: the outcomes of one step's primitive action.  ok: it returned
\* Ok(()); failed: a collaborator failed; msg: the text of the error returned;
\* skipped: it returned before doing anything.
execute_step(step, cfg) ==
    LET k == step.kind IN
    CASE k \in DriverKinds -> {Ok} \cup {Failure(m) : m \in ExternalErrTexts}
      [] k \in InputKinds -> {Ok, Failure("xdotool failed")}
      [] k = "TypeOTP" -> {Swallowed, Ok, Failure("xdotool failed")}
      [] k = "Wait" -> {Ok}
      [] k = "ClickByDom" ->
            IF cfg THEN {Ok} \cup {Failure(m) : m \in ExternalErrTexts}
                   ELSE {Skipped}
      [] k = "ClickByLlm" ->
            IF cfg THEN {Ok, Failure("All OpenAI samples failed")}
                        \cup {Failure(m) : m \in ExternalErrTexts}
                   ELSE {Skipped}
      [] k = "UpdateSheetCell" -> {Ok, Swallowed}
      [] k = "StopClient" -> {Signal(STOP_CLIENT)}
      [] k = "Abort" -> {Signal(ABORT_PROGRAM)}
      [] k \in SentinelKinds -> BeginClientOutcome

\* What the validation of a step with a question can come to: the run directory or
\* the screenshot fails (returned with ?), the question call fails (logged), or an
\* answer.
ValidationOutcomes ==
    {[what |-> "infra_err", msg |-> m, answer |-> FALSE] : m \in ExternalErrTexts}
    \cup {[what |-> "ask_err", msg |-> m, answer |-> FALSE] :
              m \in {"OpenAI boolean question request failed", ABORT_PROGRAM}}
    \cup {[what |-> "answer", msg |-> "", answer |-> a] : a \in BOOLEAN}

\* A validation that is made without a configuration as well.
ValidationDue_WithoutCfg(step, cfg) == validation_question(step)

\* main.rs 211-212: the step is validated if there is a configuration and the step
\* carries a question.
ValidationDue(step, cfg) == cfg /\ validation_question(step)

\* An error of the question call returned to the caller.
OnAskErr_Returns(err_str) == "return"

\* main.rs 287-290: an error of ask_boolean_question is logged.
OnAskErr(err_str) == "continue"

\* A handler that goes on with the next corrective step after ABORT_PROGRAM.
NestedOnErr_SwallowsAbort(err_str) ==
    IF err_str = STOP_CLIENT THEN "return"
    ELSE IF err_str = ABORT_PROGRAM THEN "next"
    ELSE "return"

\* The corrective-step handler, main.rs 271-282: every arm returns the error.
NestedOnErr(err_str) ==
    IF err_str = STOP_CLIENT THEN "return"
    ELSE IF err_str = ABORT_PROGRAM THEN "return"
    ELSE "return"

\* The top-level handler, main.rs 330-343.
MainOnErr(err_str) ==
    IF err_str = STOP_CLIENT THEN "continue"
    ELSE IF err_str = ABORT_PROGRAM THEN "return"
    ELSE "return"

(***************************************************************************)
(* The rate-limit tracker, src/openai_client.rs 21-59.                     *)
(***************************************************************************)
DefaultThreshold == 3

DefaultPauseMinutes == 5

\* RateLimitTracker::new
NewTracker == [consecutive_failures |-> 0, last_failure_time |-> "None"]

record_failure(t) ==
    [consecutive_failures |-> t.consecutive_failures + 1, last_failure_time |-> "Some"]

\* A record_success that clears the time and takes one failure off the counter.
record_success_Decrements(t) ==
    [consecutive_failures |-> IF t.consecutive_failures > 0
                              THEN t.consecutive_failures - 1 ELSE 0,
     last_failure_time |-> "None"]

record_success(t) == [consecutive_failures |-> 0, last_failure_time |-> "None"]

\* A should_pause that waits for one failure more.
should_pause_Strict(t) == t.consecutive_failures > threshold

should_pause(t) == t.consecutive_failures >= threshold

\* In seconds.
get_pause_duration(t) == DefaultPauseMinutes * 60

\* The values OPENAI_RATE_LIMIT_PAUSE_THRESHOLD gives should_pause: a parsed usize,
\* or the default when the variable is unset or does not parse.
Thresholds == (0..MaxThreshold) \cup {DefaultThreshold}

(***************************************************************************)
(* Sample points and their aggregation, src/openai_client.rs 1110-1161.    *)
(***************************************************************************)
\* Division rounding toward minus infinity instead.
TruncDiv_Floors(a, b) == a \div b

\* Rust's integer division: truncated toward zero (b > 0).
TruncDiv(a, b) == IF a >= 0 THEN a \div b ELSE -((-a) \div b)

RECURSIVE SumSeq(_)
SumSeq(v) == IF v = <<>> THEN 0 ELSE v[1] + SumSeq(Tail(v))

SelectInRange(v, lower, upper) == SelectSeq(v, LAMBDA x : x >= lower /\ x <= upper)

\* One and a half times the IQR rounded up instead.
IqrMargin_RoundsUp(iqr) == (iqr * 3 + 1) \div 2

\* The margin taken toward the other quartile.
IqrMargin_Inward(iqr) == -iqr

\* openai_client.rs 1131-1132: `iqr * 3 / 2` in i32.
IqrMargin(iqr) == TruncDiv(iqr * 3, 2)

\* The quartiles read from the values in the order given, without the sort.
filtered_mean_Unsorted(unsorted) ==
    IF unsorted = <<>> THEN 0
    ELSE LET v == unsorted
             n == Len(v)
         IN  IF n < 4 THEN TruncDiv(SumSeq(v), n)
             ELSE LET q1 == v[(n \div 4) + 1]
                      q3 == v[((3 * n) \div 4) + 1]
                      iqr == q3 - q1
                      lower == q1 - IqrMargin(iqr)
                      upper == q3 + IqrMargin(iqr)
                      filtered == SelectInRange(v, lower, upper)
                  IN  IF filtered = <<>> THEN TruncDiv(SumSeq(v), n)
                      ELSE TruncDiv(SumSeq(filtered), Len(filtered))

filtered_mean(unsorted) ==
    IF unsorted = <<>> THEN 0
    ELSE LET v == SortSeq(unsorted, <)
             n == Len(v)
         IN  IF n < 4 THEN TruncDiv(SumSeq(v), n)
             ELSE LET q1 == v[(n \div 4) + 1]
                      q3 == v[((3 * n) \div 4) + 1]
                      iqr == q3 - q1
                      lower == q1 - IqrMargin(iqr)
                      upper == q3 + IqrMargin(iqr)
                      filtered == SelectInRange(v, lower, upper)
                  IN  IF filtered = <<>> THEN TruncDiv(SumSeq(v), n)
                      ELSE TruncDiv(SumSeq(filtered), Len(filtered))

\* A tie of the double votes counted as a single click instead.
aggregate_points_StrictMajority(points) ==
    LET xs == [i \in 1..Len(points) |-> points[i].x]
        ys == [i \in 1..Len(points) |-> points[i].y]
        doubles == Cardinality({i \in 1..Len(points) : points[i].double})
    IN  [x |-> filtered_mean(xs), y |-> filtered_mean(ys),
         double |-> doubles * 2 > Len(points)]

\* The two axes exchanged.
aggregate_points_SwapsAxes(points) ==
    LET xs == [i \in 1..Len(points) |-> points[i].x]
        ys == [i \in 1..Len(points) |-> points[i].y]
        doubles == Cardinality({i \in 1..Len(points) : points[i].double})
    IN  [x |-> filtered_mean(ys), y |-> filtered_mean(xs),
         double |-> doubles * 2 >= Len(points)]

aggregate_points(points) ==
    LET xs == [i \in 1..Len(points) |-> points[i].x]
        ys == [i \in 1..Len(points) |-> points[i].y]
        doubles == Cardinality({i \in 1..Len(points) : points[i].double})
    IN  [x |-> filtered_mean(xs), y |-> filtered_mean(ys),
         double |-> doubles * 2 >= Len(points)]

\* The two nudges together: the defaults, or both set.
Nudges == {<<0, 0>>, <<2, -1>>}

\* The points a sample can come back with.
Points == {[x |-> 0, y |-> -3, double |-> FALSE], [x |-> 7, y |-> 4, double |-> TRUE]}

NoPoint == [x |-> 0, y |-> 0, double |-> FALSE]

(***************************************************************************)
(* The request loops of call_openai_once, call_openai_for_dom_decision and *)
(* ask_boolean_question, and the locals of call_openai_for_point.          *)
(***************************************************************************)
\* Sample tasks 0..MaxSamples - 1, and one more for the calls whose samples are
\* taken as single steps.
TaskIds == 0..MaxSamples

\* No MutexGuard of RATE_LIMIT_TRACKER is alive.
LockFree == -1

\* No call of viewport_to_screen, none of aggregate_points.
NoGeom == [called |-> FALSE]

NoAgg == [called |-> FALSE]

NoBackoff == [called |-> FALSE]

NoDom == [pc |-> "idle"]

\* What one HTTP attempt can come to.
Responses == {"neterr", "s429", "http_err", "ok_badjson", "ok_nochoices",
              "ok_badcontent", "ok_good"}

SuccessStatus == {"ok_badjson", "ok_nochoices", "ok_badcontent", "ok_good"}

\* Texts that come from outside (a response body, a transport error): with or
\* without a word call_openai_for_point takes for a sign of rate limiting.
OutsideTexts == {"opaque", "opaque rate"}

\* openai_client.rs 858-861: the lowercased text of a sample's error contains
\* "429" or "rate".
MentionsRateLimit(msg) == msg \in {"opaque rate", "OpenAI request failed (rate limited)"}

NoResult == [done |-> FALSE, ok |-> FALSE, pt |-> NoPoint, msg |-> ""]

OkResult(p) == [done |-> TRUE, ok |-> TRUE, pt |-> p, msg |-> ""]

ErrResult(m) == [done |-> TRUE, ok |-> FALSE, pt |-> NoPoint, msg |-> m]

\* A loop that has not started.  pc: unspawned, entry, pausing, inflight, sleeping,
\* finished, joined.  The fields after result are history.
IdleLoop ==
    [pc |-> "unspawned", attempt |-> 0, rate_limited |-> FALSE, last_err |-> "",
     result |-> NoResult,
     pausedAtEntry |-> FALSE, pauseSlept |-> 0, cfAfterPause |-> -1, sent |-> FALSE,
     lastStatus |-> "", cfBeforeResp |-> -1, cfAfterResp |-> -1, requests |-> 0]

IdleTasks == [i \in TaskIds |-> IdleLoop]

\* call.pc: idle, entry, pausing, spawn, joining, looping, returned.
IdleCall ==
    [fn |-> "none", pc |-> "idle", launched |-> 0, results |-> <<>>,
     rate_limit_failures |-> 0, total_failures |-> 0, outcome |-> NoResult,
     pausedAtEntry |-> FALSE, pauseSlept |-> 0, cfAfterPause |-> -1,
     x_off |-> 0, y_off |-> 0]

(***************************************************************************)
(* The engine's state.                                                     *)
(***************************************************************************)
Top == stack[Len(stack)]

CurStep == Top.list[Top.i]

\* The place of the current step: per frame, its index and the answer that chose
\* the frame's list.
CurPath == [j \in 1..Len(stack) |-> <<stack[j].i, stack[j].ans>>]

RECURSIVE SeqsUpTo(_, _)
SeqsUpTo(S, n) ==
    IF n = 0 THEN {<<>>}
    ELSE LET shorter == SeqsUpTo(S, n - 1) IN
         shorter \cup {Append(s, x) : s \in {t \in shorter : Len(t) = n - 1}, x \in S}

\* A TypeOTP step with a question, a corrective list for the answer true and
\* none for false.
ValidatedOtp ==
    [kind |-> "TypeOTP", question |-> TRUE, on_true |-> <<Leaf("TypeKey"), Leaf("Wait")>>,
     on_false |-> <<>>]

\* A ClickByLlm step with a question and a corrective list for either answer.
ValidatedClick ==
    [kind |-> "ClickByLlm", question |-> TRUE, on_true |-> <<Leaf("TypeKey")>>,
     on_false |-> <<Leaf("Wait")>>]

FirstSteps ==
    {Leaf(k) : k \in StepKinds \cup SentinelKinds}
    \cup {Nest(d, k) : d \in 1..MaxDepth, k \in {"VisitUrl", "StopClient", "Abort"}}
    \cup {ValidatedOtp, ValidatedClick}

TailSteps == {Leaf(k) : k \in {"BeginClient", "VisitUrl", "StopClient", "Abort"}}

Plans == {<<f>> \o t : f \in FirstSteps, t \in SeqsUpTo(TailSteps, MaxTail)}

\* The variables of the calls and of the tracker's history at rest.
InitRestIdle ==
    /\ tracker = NewTracker
    /\ threshold = DefaultThreshold
    /\ max_retries = 0
    /\ samples = 1
    /\ max_conc = 1
    /\ call = IdleCall
    /\ tasks = IdleTasks
    /\ lastOp = "new"
    /\ lastAnswer = FALSE
    /\ sinceSuccess = 0
    /\ prevFailures = 0
    /\ lock = LockFree

InitEngine ==
    /\ plan \in Plans
    /\ openai_cfg \in BOOLEAN
    /\ stack = <<[list |-> plan, i |-> 1, ans |-> "plan"]>>
    /\ pc = "exec"
    /\ err = ""
    /\ runResult = <<>>
    /\ trace = <<>>
    /\ InitRestIdle
    /\ geom = NoGeom
    /\ agg = NoAgg
    /\ backoff = NoBackoff
    /\ dom = NoDom

\* main.rs 208: execute_step(...).await?
ExecuteStep ==
    /\ pc = "exec"
    /\ \E o \in execute_step(CurStep, openai_cfg) :
          /\ trace' = Append(trace, [path |-> CurPath, kind |-> CurStep.kind,
                                     ok |-> o.ok, failed |-> o.failed, msg |-> o.msg,
                                     skipped |-> o.skipped, val |-> "none"])
          /\ pc' = IF o.ok THEN "validate" ELSE "ret_err"
          /\ err' = o.msg
    /\ UNCHANGED <<plan, openai_cfg, stack, runResult>>
    /\ UNCHANGED <<tracker, threshold, rlVars, histVars, lock, pureVars>>

\* The trace with what the validation of the step executed last came to.
Validated(what) == [trace EXCEPT ![Len(trace)].val = what]

AnswerText(answer) == IF answer THEN "true" ELSE "false"

\* main.rs 211-298: the validation question and the choice of the corrective list.
Validate ==
    /\ pc = "validate"
    /\ IF ~ValidationDue(CurStep, openai_cfg)
       THEN pc' = "ret_ok" /\ UNCHANGED <<stack, err, trace>>
       ELSE \E v \in ValidationOutcomes :
               CASE v.what = "infra_err" ->
                       /\ pc' = "ret_err" /\ err' = v.msg /\ UNCHANGED stack
                       /\ trace' = Validated("infra_err")
                 [] v.what = "ask_err" ->
                       /\ IF OnAskErr(v.msg) = "continue"
                          THEN pc' = "ret_ok" /\ UNCHANGED err
                          ELSE pc' = "ret_err" /\ err' = v.msg
                       /\ UNCHANGED stack
                       /\ trace' = Validated("ask_err")
                 [] v.what = "answer" ->
                       LET acts == validation_actions(CurStep, v.answer) IN
                       /\ trace' = Validated(AnswerText(v.answer))
                       /\ IF acts = <<>>
                          THEN pc' = "ret_ok" /\ UNCHANGED <<stack, err>>
                          ELSE /\ stack' = Append(stack, [list |-> acts, i |-> 1,
                                                          ans |-> AnswerText(v.answer)])
                               /\ pc' = "exec"
                               /\ UNCHANGED err
    /\ UNCHANGED <<plan, openai_cfg, runResult>>
    /\ UNCHANGED <<tracker, threshold, rlVars, histVars, lock, pureVars>>

\* main.rs 261-270, 300: a corrective step returned Ok: the next one, or the list is
\* done and the step that owns it returns Ok.
NestedReturnOk ==
    /\ pc = "ret_ok"
    /\ Len(stack) > 1
    /\ IF Top.i < Len(Top.list)
       THEN stack' = [stack EXCEPT ![Len(stack)].i = Top.i + 1] /\ pc' = "exec"
       ELSE stack' = SubSeq(stack, 1, Len(stack) - 1) /\ pc' = "ret_ok"
    /\ UNCHANGED <<plan, openai_cfg, err, runResult, trace>>
    /\ UNCHANGED <<tracker, threshold, rlVars, histVars, lock, pureVars>>

\* main.rs 271-282: a corrective step returned an error.
NestedReturnErr ==
    /\ pc = "ret_err"
    /\ Len(stack) > 1
    /\ IF NestedOnErr(err) = "return"
       THEN stack' = SubSeq(stack, 1, Len(stack) - 1) /\ pc' = "ret_err"
       ELSE IF Top.i < Len(Top.list)
            THEN stack' = [stack EXCEPT ![Len(stack)].i = Top.i + 1] /\ pc' = "exec"
            ELSE stack' = SubSeq(stack, 1, Len(stack) - 1) /\ pc' = "ret_ok"
    /\ UNCHANGED <<plan, openai_cfg, err, runResult, trace>>
    /\ UNCHANGED <<tracker, threshold, rlVars, histVars, lock, pureVars>>

\* main.rs 325, 345-350: the next iteration of main's loop, or its end.
MainNextStep ==
    IF Top.i < Len(plan)
    THEN stack' = [stack EXCEPT ![1].i = Top.i + 1] /\ pc' = "exec"
                  /\ UNCHANGED runResult
    ELSE pc' = "done" /\ runResult' = <<"Ok">> /\ UNCHANGED stack

\* main.rs 329: a top-level step returned Ok.
MainReturnOk ==
    /\ pc = "ret_ok"
    /\ Len(stack) = 1
    /\ MainNextStep
    /\ UNCHANGED <<plan, openai_cfg, err, trace>>
    /\ UNCHANGED <<tracker, threshold, rlVars, histVars, lock, pureVars>>

\* main.rs 330-343: a top-level step returned an error.
MainReturnErr ==
    /\ pc = "ret_err"
    /\ Len(stack) = 1
    /\ IF MainOnErr(err) = "continue"
       THEN MainNextStep
       ELSE pc' = "failed" /\ runResult' = <<"Err", err>> /\ UNCHANGED stack
    /\ UNCHANGED <<plan, openai_cfg, err, trace>>
    /\ UNCHANGED <<tracker, threshold, rlVars, histVars, lock, pureVars>>

NextEngine ==
    \/ ExecuteStep
    \/ Validate
    \/ NestedReturnOk
    \/ NestedReturnErr
    \/ MainReturnOk
    \/ MainReturnErr

Spec == InitEngine /\ [][NextEngine]_vars

(***************************************************************************)
(* The tracker alone: any sequence of calls of its methods.                *)
(***************************************************************************)
\* The step engine at rest.
InitEngineIdle ==
    /\ plan = <<>>
    /\ openai_cfg = FALSE
    /\ stack = <<>>
    /\ pc = "off"
    /\ err = ""
    /\ runResult = <<>>
    /\ trace = <<>>

InitTracker ==
    /\ InitEngineIdle
    /\ tracker = NewTracker
    /\ threshold \in Thresholds
    /\ max_retries = 0
    /\ samples = 1
    /\ max_conc = 1
    /\ call = IdleCall
    /\ tasks = IdleTasks
    /\ lastOp = "new"
    /\ lastAnswer = FALSE
    /\ sinceSuccess = 0
    /\ prevFailures = 0
    /\ lock = LockFree
    /\ geom = NoGeom
    /\ agg = NoAgg
    /\ backoff = NoBackoff
    /\ dom = NoDom

CallRecordFailure ==
    /\ tracker.consecutive_failures < MaxFailures
    /\ tracker' = record_failure(tracker)
    /\ lastOp' = "record_failure"
    /\ sinceSuccess' = sinceSuccess + 1
    /\ prevFailures' = tracker.consecutive_failures
    /\ UNCHANGED <<lastAnswer, threshold, engineVars, rlVars, lock, pureVars>>

CallRecordSuccess ==
    /\ tracker' = record_success(tracker)
    /\ lastOp' = "record_success"
    /\ sinceSuccess' = 0
    /\ prevFailures' = tracker.consecutive_failures
    /\ UNCHANGED <<lastAnswer, threshold, engineVars, rlVars, lock, pureVars>>

CallShouldPause ==
    /\ lastAnswer' = should_pause(tracker)
    /\ lastOp' = "should_pause"
    /\ prevFailures' = tracker.consecutive_failures
    /\ UNCHANGED <<tracker, sinceSuccess, threshold, engineVars, rlVars, lock, pureVars>>

NextTracker ==
    \/ CallRecordFailure
    \/ CallRecordSuccess
    \/ CallShouldPause

SpecTracker == InitTracker /\ [][NextTracker]_vars

\* C7: should_pause() is true exactly when the failures recorded since the last
\* success (or since the tracker was made) number at least the threshold: false
\* below it, true from the threshold-th failure in a row on.
C7_ShouldPauseIffThresholdReached ==
    /\ tracker.consecutive_failures = sinceSuccess
    /\ should_pause(tracker) <=> (sinceSuccess >= threshold)
    /\ lastOp = "should_pause" => (lastAnswer <=> (sinceSuccess >= threshold))

\* C7 witness: should_pause() has answered true at the default threshold, after
\* exactly that many failures in a row.
C7_Witness ==
    /\ lastOp = "should_pause"
    /\ lastAnswer
    /\ threshold = DefaultThreshold
    /\ sinceSuccess = DefaultThreshold

\* C8: right after record_success() the counter is 0 and last_failure_time is
\* cleared, whatever the tracker held, and should_pause() is false for a threshold
\* of at least 1.
C8_RecordSuccessResets ==
    lastOp = "record_success"
    => /\ tracker.consecutive_failures = 0
       /\ tracker.last_failure_time = "None"
       /\ threshold >= 1 => ~should_pause(tracker)

\* C8 witness: record_success() was called on a tracker that was due to pause.
C8_Witness ==
    /\ lastOp = "record_success"
    /\ threshold >= 1
    /\ prevFailures > threshold

(***************************************************************************)
(* The vision-model entry points, src/openai_client.rs: one call at a      *)
(* time, as the step engine makes them; within call_openai_for_point the   *)
(* sample tasks run concurrently.                                          *)
(***************************************************************************)
Min_TakesFirst(a, b) == a

Min(a, b) == IF a <= b THEN a ELSE b

\* The function whose request loop the loops of the current call run.
LoopFn == IF call.fn = "point" THEN "once" ELSE call.fn

EntryPauses_Never(t) == FALSE

\* An entry check that lets the threshold-th failure pass.
EntryPauses_OnlyAbove(t) == t.consecutive_failures > threshold

\* The test `if should_pause {` at the head of every entry point.
EntryPauses(t) == should_pause(t)

AfterStatus_OnlyWhenParsed(r, t) == IF r = "ok_good" THEN record_success(t) ELSE t

\* The tracker after the status line of a response has been looked at: a success
\* status resets it before the body is read.
AfterStatus(r, t) == IF r \in SuccessStatus THEN record_success(t) ELSE t

\* The function returns: its locals are gone, its result and its history stay.
Finish(l, res) ==
    [l EXCEPT !.pc = "finished", !.result = res, !.attempt = 0,
              !.rate_limited = FALSE, !.last_err = ""]

\* The error a loop returns once its attempts are used up.
ExhaustedMsg(fn, l) ==
    IF l.last_err # "" THEN l.last_err
    ELSE IF fn = "once"
         THEN (IF l.rate_limited THEN "OpenAI request failed (rate limited)"
               ELSE "OpenAI request failed")
         ELSE IF fn = "dom" THEN "OpenAI decision request failed"
         ELSE "OpenAI boolean question request failed"

\* Every request loop, call_openai_once too, telling the tracker of its 429s.
ExhaustedRecordsFailure_OnceToo(fn, l) == l.rate_limited

\* Only call_openai_for_dom_decision and ask_boolean_question record a failure
\* themselves, and only when a 429 was seen.
ExhaustedRecordsFailure(fn, l) == fn \in {"dom", "bool"} /\ l.rate_limited

\* The tracker once the loop has fallen out of its for.
AfterExhausted(fn, l, t) == IF ExhaustedRecordsFailure(fn, l) THEN record_failure(t) ELSE t

\* A loop that goes round once more than cfg.max_retries allows.
NextAttempt_OneMore(fn, l) ==
    IF l.attempt <= max_retries
    THEN [l EXCEPT !.pc = "inflight", !.sent = TRUE, !.requests = l.requests + 1]
    ELSE Finish(l, ErrResult(ExhaustedMsg(fn, l)))

\* The head of `for attempt in 0..cfg.max_retries`, coming from attempt - 1.
NextAttempt(fn, l) ==
    IF l.attempt < max_retries
    THEN [l EXCEPT !.pc = "inflight", !.sent = TRUE, !.requests = l.requests + 1]
    ELSE Finish(l, ErrResult(ExhaustedMsg(fn, l)))

InitRL ==
    /\ InitEngineIdle
    /\ tracker = NewTracker
    /\ threshold \in Thresholds
    /\ max_retries \in 0..MaxRetries
    /\ samples \in 1..MaxSamples
    /\ max_conc \in 1..MaxConc
    /\ samples * max_retries <= MaxRequests
    /\ call = IdleCall
    /\ tasks = IdleTasks
    /\ lastOp = "new"
    /\ lastAnswer = FALSE
    /\ sinceSuccess = 0
    /\ prevFailures = 0
    /\ lock = LockFree
    /\ geom = NoGeom
    /\ agg = NoAgg
    /\ backoff = NoBackoff
    /\ dom = NoDom

\* The caller enters the entry point fn.
StartCallOf(fn) ==
    /\ call.pc \in {"idle", "returned"}
    /\ call' = [IdleCall EXCEPT !.fn = fn,
                                !.pc = IF fn = "point" THEN "entry" ELSE "looping"]
    /\ tasks' = IF fn = "point" THEN IdleTasks
                ELSE [IdleTasks EXCEPT ![0].pc = "entry"]
    /\ UNCHANGED <<tracker, threshold, max_retries, samples, max_conc, engineVars,
                   histVars, lock, pureVars>>

\* The caller enters call_openai_for_point, call_openai_for_dom_decision or
\* ask_boolean_question.
StartCall == \E fn \in {"point", "dom", "bool"} : StartCallOf(fn)

\* openai_client.rs 785-786: call_openai_for_point's check.
PointEntry ==
    /\ call.fn = "point"
    /\ call.pc = "entry"
    /\ call' = [call EXCEPT !.pausedAtEntry = should_pause(tracker),
                            !.pc = IF EntryPauses(tracker) THEN "pausing" ELSE "spawn"]
    /\ UNCHANGED <<tracker, tasks, threshold, max_retries, samples, max_conc,
                   engineVars, histVars, lock, pureVars>>

\* openai_client.rs 787-793: the pause ends and the counter is reset.
PointPauseWake ==
    /\ call.fn = "point"
    /\ call.pc = "pausing"
    /\ tracker' = record_success(tracker)
    /\ call' = [call EXCEPT !.pauseSlept = get_pause_duration(tracker),
                            !.cfAfterPause = tracker'.consecutive_failures,
                            !.pc = "spawn"]
    /\ UNCHANGED <<tasks, threshold, max_retries, samples, max_conc, engineVars,
                   histVars, lock, pureVars>>

\* openai_client.rs 824-841: the first batch of sample tasks.
SpawnInitial ==
    /\ call.fn = "point"
    /\ call.pc = "spawn"
    /\ LET initial == Min(samples, max_conc) IN
          /\ tasks' = [i \in TaskIds |-> IF i < initial
                                         THEN [IdleLoop EXCEPT !.pc = "entry"]
                                         ELSE IdleLoop]
          /\ call' = [call EXCEPT !.launched = initial, !.pc = "joining"]
    /\ UNCHANGED <<tracker, threshold, max_retries, samples, max_conc, engineVars,
                   histVars, lock, pureVars>>

\* How the part of a request function before its loop ends: it goes on, it returns
\* an error, or (in a sample task) it panics, which join_next reports as an error
\* of the task.
SetupOutcomes(fn) == IF fn = "once" THEN {"ok", "err", "panic"} ELSE {"ok", "err"}

JoinErrorText == "task panicked"

AfterSetup(fn, l, setup) ==
    IF setup = "ok" THEN NextAttempt(fn, l)
    ELSE IF setup = "err" THEN Finish(l, ErrResult("opaque"))
    ELSE Finish(l, ErrResult(JoinErrorText))

\* The head of a request function: the stagger of a sample task is over, the
\* pause check (931-932, 530-531, 1425-1426), then the set-up of the request,
\* which can fail (942-951, 541-561, 1436), then the first attempt.
LoopEntry(i) ==
    /\ tasks[i].pc = "entry"
    /\ LET l == [tasks[i] EXCEPT !.pausedAtEntry = should_pause(tracker)] IN
          IF EntryPauses(tracker)
          THEN tasks' = [tasks EXCEPT ![i] = [l EXCEPT !.pc = "pausing"]]
          ELSE \E setup \in SetupOutcomes(LoopFn) :
                  tasks' = [tasks EXCEPT ![i] = AfterSetup(LoopFn, l, setup)]
    /\ UNCHANGED <<tracker, call, threshold, max_retries, samples, max_conc,
                   engineVars, histVars, lock, pureVars>>

\* The pause of a request function ends: the counter is reset (933-939, 532-538,
\* 1427-1433), then the set-up and the first attempt.
LoopPauseWake(i) ==
    /\ tasks[i].pc = "pausing"
    /\ tracker' = record_success(tracker)
    /\ LET l == [tasks[i] EXCEPT !.pauseSlept = get_pause_duration(tracker),
                                 !.cfAfterPause = tracker'.consecutive_failures] IN
          \E setup \in SetupOutcomes(LoopFn) :
              tasks' = [tasks EXCEPT ![i] = AfterSetup(LoopFn, l, setup)]
    /\ UNCHANGED <<call, threshold, max_retries, samples, max_conc, engineVars,
                   histVars, lock, pureVars>>

\* The text that comes with a response, where the code reads one, and the point,
\* where the content parses to one.
TextsOf(r) ==
    IF r \in {"neterr", "http_err", "ok_badcontent", "ok_badjson"} THEN OutsideTexts
    ELSE {"opaque"}

PointsOf(r) == IF r = "ok_good" THEN Points ELSE {NoPoint}

\* The response of the attempt in flight (1001-1094, 584-636, 1484-1546).
Receive(i) ==
    /\ tasks[i].pc = "inflight"
    /\ \E r \in Responses : \E text \in TextsOf(r), p \in PointsOf(r) :
          LET t1 == AfterStatus(r, tracker)
              l == IF r \in SuccessStatus \cup {"s429"}
                   THEN [tasks[i] EXCEPT !.lastStatus = r,
                                         !.cfBeforeResp = tracker.consecutive_failures,
                                         !.cfAfterResp = t1.consecutive_failures]
                   ELSE tasks[i]
              failed == [l EXCEPT !.last_err = text]
              last == failed.attempt + 1 >= max_retries
              after == [failed EXCEPT !.attempt = failed.attempt + 1]
          IN  CASE r = "s429" ->
                      /\ tasks' = [tasks EXCEPT ![i] =
                                      [l EXCEPT !.rate_limited = TRUE, !.pc = "sleeping"]]
                      /\ tracker' = t1
                [] r \in {"neterr", "http_err", "ok_badcontent"} ->
                      IF last
                      THEN /\ tasks' = [tasks EXCEPT ![i] = NextAttempt(LoopFn, after)]
                           /\ tracker' = AfterExhausted(LoopFn, after, t1)
                      ELSE /\ tasks' = [tasks EXCEPT ![i] = [failed EXCEPT !.pc = "sleeping"]]
                           /\ tracker' = t1
                [] r = "ok_badjson" ->
                      /\ tasks' = [tasks EXCEPT ![i] = Finish(l, ErrResult(text))]
                      /\ tracker' = t1
                [] r = "ok_nochoices" ->
                      /\ tasks' = [tasks EXCEPT ![i] =
                                      Finish(l, ErrResult("No choices from OpenAI"))]
                      /\ tracker' = t1
                [] r = "ok_good" ->
                      /\ tasks' = [tasks EXCEPT ![i] =
                                      Finish(l, OkResult(IF LoopFn = "once" THEN p
                                                         ELSE NoPoint))]
                      /\ tracker' = t1
    /\ UNCHANGED <<call, threshold, max_retries, samples, max_conc, engineVars,
                   histVars, lock, pureVars>>

\* The sleep after a 429 or the backoff after another failure is over: the next
\* attempt, or the end of the loop (1017-1018, 1091-1107, 634-644, 1544-1554).
Wake(i) ==
    /\ tasks[i].pc = "sleeping"
    /\ LET l == [tasks[i] EXCEPT !.attempt = tasks[i].attempt + 1, !.lastStatus = "",
                                 !.cfBeforeResp = -1, !.cfAfterResp = -1]
       IN  /\ tasks' = [tasks EXCEPT ![i] = NextAttempt(LoopFn, l)]
           /\ tracker' = IF l.attempt < max_retries THEN tracker
                         ELSE AfterExhausted(LoopFn, l, tracker)
    /\ UNCHANGED <<call, threshold, max_retries, samples, max_conc, engineVars,
                   histVars, lock, pureVars>>

MoreToLaunch_OffByOne(launched) == launched + 1 < samples

\* openai_client.rs 871: `if launched < samples` after each joined task.
MoreToLaunch(launched) == launched < samples

TakeSample_KeepsFailed(results, res) == Append(results, res.pt)

\* openai_client.rs 848-852: only a sample that came back with a point is pushed.
TakeSample(results, res) == IF res.ok THEN Append(results, res.pt) ELSE results

\* openai_client.rs 847-888: join_next returns a finished sample task; its result is
\* taken and, while fewer than `samples` were launched, the next task is spawned.
Join(i) ==
    /\ call.fn = "point"
    /\ call.pc = "joining"
    /\ tasks[i].pc = "finished"
    /\ LET res == tasks[i].result
           joined == [tasks EXCEPT ![i] = [IdleLoop EXCEPT !.pc = "joined",
                                                            !.result = res]]
       IN  /\ call' = [call EXCEPT
                  !.results = TakeSample(call.results, res),
                  !.total_failures = IF res.ok THEN call.total_failures
                                     ELSE call.total_failures + 1,
                  !.rate_limit_failures =
                      IF ~res.ok /\ res.msg # JoinErrorText /\ MentionsRateLimit(res.msg)
                      THEN call.rate_limit_failures + 1
                      ELSE call.rate_limit_failures,
                  !.launched = IF MoreToLaunch(call.launched) THEN call.launched + 1
                               ELSE call.launched]
           /\ tasks' = IF MoreToLaunch(call.launched)
                       THEN [joined EXCEPT ![call.launched] =
                                [IdleLoop EXCEPT !.pc = "entry"]]
                       ELSE joined
    /\ UNCHANGED <<tracker, threshold, max_retries, samples, max_conc, engineVars,
                   histVars, lock, pureVars>>

\* The samples that came back with a point.
HasResults(results) == results # <<>>

\* openai_client.rs 917-922: `Ok(agg)`; CLICK_X_OFFSET_PX and CLICK_Y_OFFSET_PX are
\* read by save_dotmap_png (1375-1378) and moved the drawn dots only.
PointResult(aggregate, off) == aggregate

\* A loop that goes on until every task there could be has been joined.
JoinSetEmpty_WaitsForAll == \A i \in TaskIds : tasks[i].pc = "joined"

\* openai_client.rs 847: join_next returns None, no spawned task is left in the set.
JoinSetEmpty == \A i \in TaskIds : tasks[i].pc \in {"unspawned", "joined"}

\* openai_client.rs 890-923: the JoinSet is empty: the tracker is told, and the call
\* fails or returns the aggregate.  off: CLICK_X_OFFSET_PX and CLICK_Y_OFFSET_PX.
PointReturn ==
    /\ call.fn = "point"
    /\ call.pc = "joining"
    /\ JoinSetEmpty
    /\ tracker' =
          IF ~HasResults(call.results) THEN record_failure(tracker)
          ELSE IF /\ call.rate_limit_failures > 0
                  /\ call.rate_limit_failures >= call.total_failures \div 2
               THEN record_failure(tracker)
               ELSE record_success(tracker)
    /\ \E off \in Nudges :
          call' = [call EXCEPT
              !.pc = "returned",
              !.x_off = off[1],
              !.y_off = off[2],
              !.outcome = IF ~HasResults(call.results)
                          THEN ErrResult("All OpenAI samples failed")
                          ELSE OkResult(PointResult(aggregate_points(call.results), off))]
    /\ UNCHANGED <<tasks, threshold, max_retries, samples, max_conc, engineVars,
                   histVars, lock, pureVars>>

\* call_openai_for_dom_decision or ask_boolean_question returns what its loop
\* came to.
SeqReturn ==
    /\ call.fn \in {"dom", "bool"}
    /\ call.pc = "looping"
    /\ tasks[0].pc = "finished"
    /\ call' = [call EXCEPT !.pc = "returned", !.outcome = tasks[0].result]
    /\ UNCHANGED <<tracker, tasks, threshold, max_retries, samples, max_conc,
                   engineVars, histVars, lock, pureVars>>

NextRL ==
    \/ StartCall
    \/ PointEntry
    \/ PointPauseWake
    \/ SpawnInitial
    \/ \E i \in TaskIds : LoopEntry(i)
    \/ \E i \in TaskIds : LoopPauseWake(i)
    \/ \E i \in TaskIds : Receive(i)
    \/ \E i \in TaskIds : Wake(i)
    \/ \E i \in TaskIds : Join(i)
    \/ PointReturn
    \/ SeqReturn

SpecRL == InitRL /\ [][NextRL]_vars

\* The tokio runtime polls every task that can go on, and every sleep and every
\* HTTP request ends (the request by its response or by an error); whether the
\* caller makes another call is up to the caller.
FairRL ==
    /\ WF_vars(PointEntry)
    /\ WF_vars(PointPauseWake)
    /\ WF_vars(SpawnInitial)
    /\ \A i \in TaskIds : WF_vars(LoopEntry(i))
    /\ \A i \in TaskIds : WF_vars(LoopPauseWake(i))
    /\ \A i \in TaskIds : WF_vars(Receive(i))
    /\ \A i \in TaskIds : WF_vars(Wake(i))
    /\ \A i \in TaskIds : WF_vars(Join(i))
    /\ WF_vars(PointReturn)
    /\ WF_vars(SeqReturn)

\* The calls of a run that pauses after a single failure.
InitRLFair == InitRL /\ threshold = 1

SpecRLFair == InitRLFair /\ [][NextRL]_vars /\ FairRL

(***************************************************************************)
(* call_openai_for_point with each sample task, a whole call_openai_once,  *)
(* taken as one step: what it returns and what it did to the tracker.      *)
(***************************************************************************)
\* What a sample task can come back with: a point, the error of a loop that saw a
\* 429, another error, a panic.
SampleResults ==
    {OkResult(p) : p \in {[x |-> 7, y |-> 4, double |-> TRUE]}}
    \cup {ErrResult(m) : m \in {"OpenAI request failed (rate limited)", "opaque",
                                JoinErrorText}}

\* call_openai_once, openai_client.rs 925-1108, from the stagger sleep to its return:
\* it resets the counter whenever it pauses or reads a success status, which it has
\* done if it returns a point, and it never records a failure.
SampleDone(i) ==
    /\ call.fn = "point"
    /\ tasks[i].pc = "entry"
    /\ \E res \in SampleResults, reset \in BOOLEAN :
          /\ res.ok => reset
          /\ tasks' = [tasks EXCEPT ![i] = Finish(tasks[i], res)]
          /\ tracker' = IF reset THEN record_success(tracker) ELSE tracker
    /\ UNCHANGED <<call, threshold, max_retries, samples, max_conc, engineVars,
                   histVars, lock, pureVars>>

InitPoint ==
    /\ InitEngineIdle
    /\ tracker = NewTracker
    /\ threshold \in Thresholds
    /\ max_retries = 1
    /\ samples \in 1..(MaxSamples + 1)
    /\ max_conc \in 1..MaxConc
    /\ call = IdleCall
    /\ tasks = IdleTasks
    /\ lastOp = "new"
    /\ lastAnswer = FALSE
    /\ sinceSuccess = 0
    /\ prevFailures = 0
    /\ lock = LockFree
    /\ geom = NoGeom
    /\ agg = NoAgg
    /\ backoff = NoBackoff
    /\ dom = NoDom

NextPoint ==
    \/ StartCallOf("point")
    \/ PointEntry
    \/ PointPauseWake
    \/ SpawnInitial
    \/ \E i \in TaskIds : SampleDone(i)
    \/ \E i \in TaskIds : Join(i)
    \/ PointReturn

SpecPoint == InitPoint /\ [][NextPoint]_vars

(***************************************************************************)
(* The Mutex around the tracker, src/openai_client.rs 61-75: the sample    *)
(* tasks of one call_openai_for_point call, each running call_openai_once, *)
(* with every with_rate_limit_tracker call in two steps: lock() returns    *)
(* the guard; the closure runs and the guard is dropped.                   *)
(***************************************************************************)
\* The program points at which a task is about to call with_rate_limit_tracker,
\* and those at which it is inside it, holding the guard.
WantPcs == {"want_check", "want_duration", "want_reset", "want_success"}

InPcs == {"in_check", "in_duration", "in_reset", "in_success"}

InOf(p) ==
    CASE p = "want_check" -> "in_check"
      [] p = "want_duration" -> "in_duration"
      [] p = "want_reset" -> "in_reset"
      [] p = "want_success" -> "in_success"

\* The program points at which a task is suspended in an .await: the stagger
\* sleep, the pause, the HTTP request, the read of the body, the 429 wait and the
\* backoff.
AwaitPcs == {"entry", "pausing", "inflight", "reading", "sleeping"}

\* A with_rate_limit_tracker that hands its guard on to its caller.
GuardAfter_KeepsGuard(i) == i

\* openai_client.rs 73-75: the guard is a local of with_rate_limit_tracker and is
\* dropped when it returns.
GuardAfter(i) == LockFree

InitLock ==
    /\ InitEngineIdle
    /\ tracker = NewTracker
    /\ threshold \in Thresholds
    /\ max_retries \in 0..MaxRetries
    /\ samples \in 1..MaxSamples
    /\ max_conc = samples
    /\ call = [IdleCall EXCEPT !.fn = "point", !.pc = "joining", !.launched = samples]
    /\ tasks = [i \in TaskIds |-> IF i < samples THEN [IdleLoop EXCEPT !.pc = "entry"]
                                  ELSE IdleLoop]
    /\ lastOp = "new"
    /\ lastAnswer = FALSE
    /\ sinceSuccess = 0
    /\ prevFailures = 0
    /\ lock = LockFree
    /\ geom = NoGeom
    /\ agg = NoAgg
    /\ backoff = NoBackoff
    /\ dom = NoDom

\* openai_client.rs 832-837: the stagger sleep is over, call_openai_once begins.
LkStaggerDone(i) ==
    /\ tasks[i].pc = "entry"
    /\ tasks' = [tasks EXCEPT ![i].pc = "want_check"]
    /\ UNCHANGED <<tracker, lock, call, threshold, max_retries, samples, max_conc,
                   engineVars, histVars, pureVars>>

\* openai_client.rs 73: get_rate_limit_tracker().lock() returns the guard; it blocks
\* while another guard is alive.
LkAcquire(i) ==
    /\ tasks[i].pc \in WantPcs
    /\ lock = LockFree
    /\ geom = NoGeom
    /\ agg = NoAgg
    /\ backoff = NoBackoff
    /\ dom = NoDom
    /\ lock' = i
    /\ tasks' = [tasks EXCEPT ![i].pc = InOf(tasks[i].pc)]
    /\ UNCHANGED <<tracker, call, threshold, max_retries, samples, max_conc,
                   engineVars, histVars, pureVars>>

\* openai_client.rs 74-75: f(&mut tracker) runs and with_rate_limit_tracker returns:
\* the should_pause of 931, the get_pause_duration of 933, the record_success of
\* 939 or that of 1025.
LkRunClosure(i) ==
    /\ tasks[i].pc \in InPcs
    /\ lock = i
    /\ lock' = GuardAfter(i)
    /\ LET l == tasks[i] IN
          CASE l.pc = "in_check" ->
                  /\ tasks' = [tasks EXCEPT ![i] =
                                  IF should_pause(tracker)
                                  THEN [l EXCEPT !.pausedAtEntry = TRUE,
                                                 !.pc = "want_duration"]
                                  ELSE NextAttempt("once", l)]
                  /\ UNCHANGED tracker
            [] l.pc = "in_duration" ->
                  /\ tasks' = [tasks EXCEPT ![i] =
                                  [l EXCEPT !.pauseSlept = get_pause_duration(tracker),
                                            !.pc = "pausing"]]
                  /\ UNCHANGED tracker
            [] l.pc = "in_reset" ->
                  /\ tracker' = record_success(tracker)
                  /\ tasks' = [tasks EXCEPT ![i] = NextAttempt("once", l)]
            [] l.pc = "in_success" ->
                  /\ tracker' = record_success(tracker)
                  /\ tasks' = [tasks EXCEPT ![i].pc = "reading"]
    /\ UNCHANGED <<call, threshold, max_retries, samples, max_conc, engineVars,
                   histVars, pureVars>>

\* openai_client.rs 936-939: the pause is over.
LkPauseWake(i) ==
    /\ tasks[i].pc = "pausing"
    /\ tasks' = [tasks EXCEPT ![i].pc = "want_reset"]
    /\ UNCHANGED <<tracker, lock, call, threshold, max_retries, samples, max_conc,
                   engineVars, histVars, pureVars>>

\* openai_client.rs 994-1025, 1088-1094: send().await returns.
LkReceive(i) ==
    /\ tasks[i].pc = "inflight"
    /\ \E r \in {"neterr", "s429", "http_err", "ok"} :
          LET l == tasks[i]
              after == [l EXCEPT !.attempt = l.attempt + 1, !.last_err = "opaque"]
          IN  tasks' = [tasks EXCEPT ![i] =
                  CASE r = "s429" -> [l EXCEPT !.rate_limited = TRUE, !.pc = "sleeping"]
                    [] r = "ok" -> [l EXCEPT !.pc = "want_success"]
                    [] OTHER -> IF l.attempt + 1 >= max_retries
                                THEN NextAttempt("once", after)
                                ELSE [l EXCEPT !.last_err = "opaque", !.pc = "sleeping"]]
    /\ UNCHANGED <<tracker, lock, call, threshold, max_retries, samples, max_conc,
                   engineVars, histVars, pureVars>>

\* openai_client.rs 1043-1094: r.json().await returns and the content is parsed.
LkReadBody(i) ==
    /\ tasks[i].pc = "reading"
    /\ \E r \in {"ok_badjson", "ok_nochoices", "ok_badcontent", "ok_good"}, p \in Points :
          LET l == tasks[i]
              after == [l EXCEPT !.attempt = l.attempt + 1, !.last_err = "opaque"]
          IN  tasks' = [tasks EXCEPT ![i] =
                  CASE r = "ok_good" -> Finish(l, OkResult(p))
                    [] r = "ok_badjson" -> Finish(l, ErrResult("opaque"))
                    [] r = "ok_nochoices" -> Finish(l, ErrResult("No choices from OpenAI"))
                    [] OTHER -> IF l.attempt + 1 >= max_retries
                                THEN NextAttempt("once", after)
                                ELSE [l EXCEPT !.last_err = "opaque", !.pc = "sleeping"]]
    /\ UNCHANGED <<tracker, lock, call, threshold, max_retries, samples, max_conc,
                   engineVars, histVars, pureVars>>

\* openai_client.rs 1017-1018, 1091-1094: the 429 wait or the backoff is over.
LkWake(i) ==
    /\ tasks[i].pc = "sleeping"
    /\ tasks' = [tasks EXCEPT ![i] =
                    NextAttempt("once", [tasks[i] EXCEPT !.attempt = tasks[i].attempt + 1])]
    /\ UNCHANGED <<tracker, lock, call, threshold, max_retries, samples, max_conc,
                   engineVars, histVars, pureVars>>

NextLock ==
    \/ \E i \in TaskIds : LkStaggerDone(i)
    \/ \E i \in TaskIds : LkAcquire(i)
    \/ \E i \in TaskIds : LkRunClosure(i)
    \/ \E i \in TaskIds : LkPauseWake(i)
    \/ \E i \in TaskIds : LkReceive(i)
    \/ \E i \in TaskIds : LkReadBody(i)
    \/ \E i \in TaskIds : LkWake(i)

SpecLock == InitLock /\ [][NextLock]_vars

(***************************************************************************)
(* viewport_to_screen, src/coords.rs 60-105.  The f64 values are held as   *)
(* exact fractions: scale is num/den, and round() rounds half away from    *)
(* zero.                                                                   *)
(***************************************************************************)
I32Max == 2147483647

I32Min == -I32Max - 1

\* f64 `as i32`: saturating.
SatI32(v) == IF v > I32Max THEN I32Max ELSE IF v < I32Min THEN I32Min ELSE v

\* (a / b).round() for b > 0.
RoundDiv(a, b) ==
    IF a >= 0 THEN (2 * a + b) \div (2 * b) ELSE -((2 * (-a) + b) \div (2 * b))

\* The guard of an earlier version, which looked at the screenshot only.
Degenerate_ScreenshotOnly(inputs) == inputs.screenshot_w <= 0 \/ inputs.screenshot_h <= 0

\* coords.rs 66
Degenerate(inputs) ==
    \/ inputs.screenshot_w <= 0
    \/ inputs.screenshot_h <= 0
    \/ inputs.window_w <= 0
    \/ inputs.window_h <= 0

\* coords.rs 73-75: scale = sx.min(sy), as numerator and denominator.
ScaleOf(inputs) ==
    IF inputs.window_w * inputs.screenshot_h <= inputs.window_h * inputs.screenshot_w
    THEN [num |-> inputs.window_w, den |-> inputs.screenshot_w]
    ELSE [num |-> inputs.window_h, den |-> inputs.screenshot_h]

\* coords.rs 77-78: (size as f64 * scale).round()
Drawn(size, scale) == RoundDiv(size * scale.num, scale.den)

\* i32::clamp asserts min <= max and panics otherwise.
ClampPanics(lo, hi) == lo > hi

clamp(v, lo, hi) == IF v < lo THEN lo ELSE IF v > hi THEN hi ELSE v

Returned(x, y) == [panicked |-> FALSE, x |-> x, y |-> y]

Panicked == [panicked |-> TRUE, x |-> 0, y |-> 0]

\* x_off, y_off: CLICK_X_OFFSET_PX and CLICK_Y_OFFSET_PX as read at 97-98.
viewport_to_screen(inputs, x_view, y_view, x_off, y_off) ==
    IF Degenerate(inputs) THEN Returned(inputs.window_x, inputs.window_y)
    ELSE LET scale == ScaleOf(inputs)
             drawn_w == Drawn(inputs.screenshot_w, scale)
             drawn_h == Drawn(inputs.screenshot_h, scale)
             pad_x == SatI32(RoundDiv(inputs.window_w - drawn_w, 2))
             pad_y == SatI32(RoundDiv(inputs.window_h - drawn_h, 2))
             dx == SatI32(RoundDiv(x_view * scale.num, scale.den))
             dy == SatI32(RoundDiv(y_view * scale.num, scale.den))
         IN  IF ClampPanics(0, SatI32(drawn_w) - 1) THEN Panicked
             ELSE IF ClampPanics(0, SatI32(drawn_h) - 1) THEN Panicked
             ELSE Returned(inputs.window_x + pad_x + clamp(dx, 0, SatI32(drawn_w) - 1)
                              + x_off,
                           inputs.window_y + pad_y + clamp(dy, 0, SatI32(drawn_h) - 1)
                              + y_off)

\* Screenshot and window dimensions, the degenerate ones among them.
Dims == (-1)..MaxDim

\* Viewport coordinates: inside, outside, negative and far away on both sides.
ViewCoords == {-FarCoord, -2, 0, 1, MaxDim, FarCoord}

GeomCalls ==
    [called : {TRUE}, done : {FALSE},
     inputs : [screenshot_w : Dims, screenshot_h : Dims, window_x : {0, 10},
               window_y : {-4}, window_w : Dims, window_h : Dims],
     x_view : ViewCoords, y_view : ViewCoords, nudge : Nudges, out : {Panicked}]

InitCoords ==
    /\ InitEngineIdle
    /\ InitRestIdle
    /\ agg = NoAgg
    /\ backoff = NoBackoff
    /\ dom = NoDom
    /\ geom \in GeomCalls

CallViewportToScreen ==
    /\ geom.called
    /\ ~geom.done
    /\ geom' = [geom EXCEPT
          !.done = TRUE,
          !.out = viewport_to_screen(geom.inputs, geom.x_view, geom.y_view,
                                     geom.nudge[1], geom.nudge[2])]
    /\ UNCHANGED <<agg, backoff, dom, tracker, threshold, rlVars, histVars, lock, engineVars>>

NextCoords == CallViewportToScreen

SpecCoords == InitCoords /\ [][NextCoords]_vars

(***************************************************************************)
(* aggregate_points, src/openai_client.rs 1110-1161: one call on a list of *)
(* one to MaxPoints sample points.                                         *)
(***************************************************************************)
\* The points of a list: close values, a far one on either side, one next to the
\* lower fence of -7 and 10, and both values of the double flag.
AggPoints ==
    [x : {-FarCoord, -33, -7, 10, 1000}, yd : {<<-3, FALSE>>, <<4, TRUE>>}]

PointOf(s) == [x |-> s.x, y |-> s.yd[1], double |-> s.yd[2]]

PointLists ==
    UNION {[1..n -> {PointOf(s) : s \in AggPoints}] : n \in 1..MaxPoints}

InitAgg ==
    /\ InitEngineIdle
    /\ InitRestIdle
    /\ geom = NoGeom
    /\ backoff = NoBackoff
    /\ dom = NoDom
    /\ agg \in [called : {TRUE}, done : {FALSE}, points : PointLists, out : {NoPoint}]

CallAggregatePoints ==
    /\ agg.called
    /\ ~agg.done
    /\ agg' = [agg EXCEPT !.done = TRUE, !.out = aggregate_points(agg.points)]
    /\ UNCHANGED <<geom, backoff, dom, tracker, threshold, rlVars, histVars, lock, engineVars>>

NextAgg == CallAggregatePoints

SpecAgg == InitAgg /\ [][NextAgg]_vars

(***************************************************************************)
(* The wait after a 429, src/openai_client.rs 1180-1237.  A text is the    *)
(* sequence of its characters; the phrase the body is searched for is one  *)
(* element of the sequence.                                                *)
(***************************************************************************)
None == -1

Digits == <<"0", "1", "2", "3", "4", "5", "6", "7", "8", "9">>

IsDigit(c) == \E d \in 1..10 : Digits[d] = c

DigitVal(c) == (CHOOSE d \in 1..10 : Digits[d] = c) - 1

RECURSIVE IntVal(_)
IntVal(ds) == IF ds = <<>> THEN 0 ELSE 10 * IntVal(SubSeq(ds, 1, Len(ds) - 1)) + DigitVal(ds[Len(ds)])

RECURSIVE trim_start(_)
trim_start(s) == IF s # <<>> /\ Head(s) = " " THEN trim_start(Tail(s)) ELSE s

RECURSIVE trim_end_matches(_, _)
trim_end_matches(s, c) ==
    IF s # <<>> /\ s[Len(s)] = c THEN trim_end_matches(SubSeq(s, 1, Len(s) - 1), c) ELSE s

trim(s) == trim_end_matches(trim_start(s), " ")

\* The digit at place i of the fraction, 0 beyond its end.
FracDigit(frac, i) == IF i <= Len(frac) THEN DigitVal(frac[i]) ELSE 0

\* t.parse::<f64>() followed by (v * 1000.0).round() as u64, for unsigned decimal
\* texts: digits with at most one point and at least one digit.  None: Err.
ParseMs(t) ==
    LET points == {i \in 1..Len(t) : t[i] = "."}
        wellFormed == /\ \A i \in 1..Len(t) : IsDigit(t[i]) \/ t[i] = "."
                      /\ Cardinality(points) <= 1
                      /\ \E i \in 1..Len(t) : IsDigit(t[i])
        at == IF points = {} THEN Len(t) + 1 ELSE CHOOSE i \in points : TRUE
        whole == SubSeq(t, 1, at - 1)
        frac == SubSeq(t, at + 1, Len(t))
    IN  IF ~wellFormed THEN None
        ELSE IntVal(whole) * 1000 + FracDigit(frac, 1) * 100 + FracDigit(frac, 2) * 10
             + FracDigit(frac, 3) + (IF FracDigit(frac, 4) >= 5 THEN 1 ELSE 0)

parse_seconds_str_to_ms(s) ==
    LET t == trim(trim_end_matches(trim(s), "s")) IN
    IF t = <<>> THEN None ELSE ParseMs(t)

\* s.parse::<u64>(): digits only.
ParseU64(s) ==
    IF s # <<>> /\ \A i \in 1..Len(s) : IsDigit(s[i]) THEN IntVal(s) ELSE None

HeaderKeys == <<"x-ratelimit-reset-requests", "x-ratelimit-reset-tokens", "retry-after">>

\* A header is absent, holds bytes that are no text (to_str fails), or a text.
Absent == [kind |-> "absent", chars |-> <<>>]

NotText == [kind |-> "bytes", chars |-> <<>>]

HeaderText(chars) == [kind |-> "text", chars |-> chars]

\* What one header gives: its seconds, else its integer seconds, else nothing.
HeaderMs(val) ==
    IF val.kind # "text" THEN None
    ELSE IF parse_seconds_str_to_ms(val.chars) # None
         THEN parse_seconds_str_to_ms(val.chars)
         ELSE IF ParseU64(val.chars) # None THEN ParseU64(val.chars) * 1000
              ELSE None

RECURSIVE FirstHeaderMs(_, _)
FirstHeaderMs(headers, k) ==
    IF k > Len(HeaderKeys) THEN None
    ELSE IF HeaderMs(headers[k]) # None THEN HeaderMs(headers[k])
         ELSE FirstHeaderMs(headers, k + 1)

extract_wait_ms_from_headers(headers) == FirstHeaderMs(headers, 1)

Phrase == "Please try again in"

RECURSIVE TakeNumber(_)
TakeNumber(s) ==
    IF s # <<>> /\ (IsDigit(Head(s)) \/ Head(s) = ".")
    THEN <<Head(s)>> \o TakeNumber(Tail(s))
    ELSE <<>>

extract_wait_ms_from_body(body) ==
    LET found == {i \in 1..Len(body) : body[i] = Phrase} IN
    IF found = {} THEN None
    ELSE LET pos == CHOOSE i \in found : \A j \in found : i <= j
             tail == trim_start(SubSeq(body, pos + 1, Len(body)))
             num == TakeNumber(tail)
         IN  IF num # <<>> THEN parse_seconds_str_to_ms(num \o <<"s">>) ELSE None

\* openai_client.rs 1235-1236.
Fallback(attempt) == Min(600 * (attempt + 1), 8000)

\* openai_client.rs 1227-1237: headers first, then the body, then the fallback.
compute_rate_limit_sleep_ms(headers, body, attempt) ==
    IF extract_wait_ms_from_headers(headers) # None
    THEN extract_wait_ms_from_headers(headers)
    ELSE IF extract_wait_ms_from_body(body) # None THEN extract_wait_ms_from_body(body)
         ELSE Fallback(attempt)

\* Header values: "2", "1.5s", " 0.25s " and, as OpenAI writes longer waits, "6m0s".
HeaderValues ==
    {Absent, NotText, HeaderText(<<"2">>), HeaderText(<<"1", ".", "5", "s">>),
     HeaderText(<<"6", "m", "0", "s">>)}

\* Bodies, each with the wait in ms that its text states (None: it states none):
\* no phrase; "... Please try again in 1.686s."; "... Please try again in 438ms.";
\* "... Please try again in a moment"; "... Please try again in  20s. Please try
\* again in 3s".
Bodies ==
    {[chars |-> <<"e", "r", "r">>, states |-> None],
     [chars |-> <<"x", " ", Phrase, " ", "1", ".", "6", "8", "6", "s", ".">>,
      states |-> 1686],
     [chars |-> <<Phrase, " ", "4", "3", "8", "m", "s", ".">>, states |-> 438],
     [chars |-> <<Phrase, " ", "a", " ", "m", "o", "m", "e", "n", "t">>, states |-> None],
     [chars |-> <<Phrase, " ", " ", "2", "0", "s", ".", " ", Phrase, " ", "3", "s">>,
      states |-> 20000]}

InitBackoff ==
    /\ InitEngineIdle
    /\ InitRestIdle
    /\ geom = NoGeom
    /\ agg = NoAgg
    /\ dom = NoDom
    /\ backoff \in [called : {TRUE}, done : {FALSE},
                    headers : [1..Len(HeaderKeys) -> HeaderValues], body : Bodies,
                    attempt : 0..MaxAttempt, out : {None}]

CallComputeSleep ==
    /\ backoff.called
    /\ ~backoff.done
    /\ backoff' = [backoff EXCEPT
          !.done = TRUE,
          !.out = compute_rate_limit_sleep_ms(backoff.headers, backoff.body.chars,
                                              backoff.attempt)]
    /\ UNCHANGED <<geom, agg, dom, tracker, threshold, rlVars, histVars, lock, engineVars>>

NextBackoff == CallComputeSleep

SpecBackoff == InitBackoff /\ [][NextBackoff]_vars

(***************************************************************************)
(* Candidate selection, src/openai_client.rs 237-313 and 649-757.  A text  *)
(* is the sequence of its words and a word the sequence of its characters; *)
(* scores are held in thousandths.                                         *)
(***************************************************************************)
LowerChar(c) == IF c = "S" THEN "s" ELSE IF c = "R" THEN "r" ELSE c

to_lowercase(word) == [i \in 1..Len(word) |-> LowerChar(word[i])]

LowerText(text) == [i \in 1..Len(text) |-> to_lowercase(text[i])]

IsSubstring(w, word) ==
    \E i \in 0..(Len(word) - Len(w)) : SubSeq(word, i + 1, i + Len(w)) = w

\* str::contains for a pattern without white space.
Contains(text, w) == \E i \in 1..Len(text) : IsSubstring(w, text[i])

\* The largest r with r * r <= n, sought between lo and hi.
RECURSIVE SqrtBetween(_, _, _)
SqrtBetween(n, lo, hi) ==
    IF lo >= hi THEN lo
    ELSE LET mid == (lo + hi + 1) \div 2 IN
         IF mid * mid <= n THEN SqrtBetween(n, mid, hi) ELSE SqrtBetween(n, lo, mid - 1)

Sqrt(n) == SqrtBetween(n, 0, 4096)

Max(a, b) == IF a >= b THEN a ELSE b

ViewportW == 1280

ViewportH == 800

NoRect == <<>>

\* w.max(0) * h.max(0), 0 without a rectangle.
Area(rect) == IF rect = NoRect THEN 0 ELSE Max(rect[3], 0) * Max(rect[4], 0)

\* openai_client.rs 649-685, in thousandths.
rank_score(prompt, c, rect) ==
    LET t == LowerText(c.text)
        a == LowerText(c.aria)
        has(w) == Contains(t, w) \/ Contains(a, w)
        hits == Cardinality({i \in 1..Len(prompt) :
                    /\ Len(to_lowercase(prompt[i])) >= 3
                    /\ has(to_lowercase(prompt[i]))})
        sem == (IF c.tag = "BUTTON" THEN 600 ELSE 0)
               + (IF has(<<"s", "e", "n", "d">>) THEN 1000 ELSE 0)
               + (IF has(<<"s", "u", "b", "m", "i", "t">>) THEN 900 ELSE 0)
               + (IF has(<<"s", "a", "v", "e">>) THEN 600 ELSE 0)
        size == IF rect = NoRect THEN 0 ELSE Min(Sqrt(Area(rect)) * 10, 600)
        center == IF rect = NoRect THEN 0
                  ELSE LET dx == rect[1] + TruncDiv(rect[3], 2) - ViewportW \div 2
                           dy == rect[2] + TruncDiv(rect[4], 2) - ViewportH \div 2
                           dist == Sqrt(dx * dx + dy * dy)
                       IN  clamp(1000 - (dist * 10) \div 11, 0, 500)
    IN  hits * 1000 + sem + size + center

Eligible_VisibleOnly(c) == c.visible

\* openai_client.rs 691: the candidates that are scored.
Eligible(c) == c.visible /\ ~c.disabled

\* A comparator that puts the smaller area first.
Cmp_AreaAscending(a, b) ==
    IF a.score # b.score THEN (IF b.score < a.score THEN "Less" ELSE "Greater")
    ELSE IF a.area # b.area THEN (IF a.area < b.area THEN "Less" ELSE "Greater")
    ELSE IF a.idx # b.idx THEN (IF a.idx < b.idx THEN "Less" ELSE "Greater")
    ELSE "Equal"

\* The comparator of sort_by, openai_client.rs 705-710: Less puts a before b.
Cmp(a, b) ==
    IF a.score # b.score THEN (IF b.score < a.score THEN "Less" ELSE "Greater")
    ELSE IF a.area # b.area THEN (IF b.area < a.area THEN "Less" ELSE "Greater")
    ELSE IF a.idx # b.idx THEN (IF a.idx < b.idx THEN "Less" ELSE "Greater")
    ELSE "Equal"

\* x put into a sorted sequence behind everything that does not come after it.
Insert(sorted, x) ==
    LET before == Cardinality({i \in 1..Len(sorted) : Cmp(sorted[i], x) # "Greater"}) IN
    SubSeq(sorted, 1, before) \o <<x>> \o SubSeq(sorted, before + 1, Len(sorted))

\* slice::sort_by, a stable sort.
RECURSIVE sort_by(_)
sort_by(v) ==
    IF v = <<>> THEN <<>> ELSE Insert(sort_by(SubSeq(v, 1, Len(v) - 1)), v[Len(v)])

\* The (idx, score, area) of the scored candidates, in the order of the list;
\* indices are those of the code, from 0.
RECURSIVE Scored(_, _, _)
Scored(prompt, cands, n) ==
    IF n = 0 THEN <<>>
    ELSE LET c == cands[n]
             rest == Scored(prompt, cands, n - 1)
         IN  IF ~Eligible(c) THEN rest
             ELSE Append(rest, [idx |-> n - 1, score |-> rank_score(prompt, c.meta, c.rect),
                                area |-> Area(c.rect)])

choose_best_by_heuristic(prompt, cands) ==
    LET scored == Scored(prompt, cands, Len(cands)) IN
    IF scored = <<>> THEN 0 ELSE sort_by(scored)[1].idx

\* collect_ui_candidates is called with this cap, openai_client.rs 725.
Cap == 200

\* The reads of an element that can fail: tag_name, text, is_displayed and rect have
\* a default; attr is returned with ?.
FailKinds == {"tag_name", "text", "attr", "is_displayed", "rect"}

NoFailure == "none"

to_uppercase(tag) == IF tag = "button" THEN "BUTTON" ELSE IF tag = "a" THEN "A" ELSE tag

\* Candidates numbered from 1.
CandidateOf_FromOne(el, i, fails) ==
    [meta |-> [id |-> i + 1,
               tag |-> IF fails = "tag_name" THEN "" ELSE to_uppercase(el.tag),
               text |-> IF fails = "text" THEN <<>> ELSE el.text,
               aria |-> el.aria],
     rect |-> IF fails = "rect" THEN NoRect ELSE el.rect,
     visible |-> IF fails = "is_displayed" THEN FALSE ELSE el.displayed,
     disabled |-> el.disabled]

\* One pass of the loop of collect_ui_candidates: the candidate of element i, whose
\* read `fails` (NoFailure: none) does not succeed.
CandidateOf(el, i, fails) ==
    [meta |-> [id |-> i,
               tag |-> IF fails = "tag_name" THEN "" ELSE to_uppercase(el.tag),
               text |-> IF fails = "text" THEN <<>> ELSE el.text,
               aria |-> el.aria],
     rect |-> IF fails = "rect" THEN NoRect ELSE el.rect,
     visible |-> IF fails = "is_displayed" THEN FALSE ELSE el.displayed,
     disabled |-> el.disabled]

\* The failing read of element i of the page (indices from 0).
FailsAt(page, i) == IF page.failAt = i THEN page.fails ELSE NoFailure

\* collect_ui_candidates: Err when find_all fails or an attr read fails.
collect_ui_candidates(page, cap) ==
    LET n == Min(Len(page.elems), cap)
        attrFails == \E i \in 0..(n - 1) : FailsAt(page, i) = "attr"
    IN  IF ~page.find_ok \/ attrFails THEN [ok |-> FALSE, cands |-> <<>>]
        ELSE [ok |-> TRUE,
              cands |-> [k \in 1..n |-> CandidateOf(page.elems[k], k - 1,
                                                    FailsAt(page, k - 1))]]

IdInRange_Inclusive(i, n) == i <= n

\* openai_client.rs 744: `Some(i) if i < cands.len()`.
IdInRange(i, n) == i < n

\* The elements of a page: a Send button in the middle of the viewport, the same
\* button drawn larger, and a link "Save report" without a usable place.
Looks ==
    {[tag |-> "button", text |-> <<<<"S", "e", "n", "d">>>>, aria |-> <<>>,
      rect |-> <<610, 370, 60, 60>>],
     [tag |-> "button", text |-> <<<<"S", "e", "n", "d">>>>, aria |-> <<>>,
      rect |-> <<590, 350, 100, 100>>],
     [tag |-> "a", text |-> <<<<"s", "a", "v", "e">>, <<"R", "e", "p">>>>,
      aria |-> <<<<"r", "e", "s", "e", "n", "d">>>>, rect |-> <<1153, 1089, 30, -30>>]}

Elements ==
    {[tag |-> l.tag, text |-> l.text, aria |-> l.aria, rect |-> l.rect,
      displayed |-> st[1], disabled |-> st[2]] :
        l \in Looks, st \in {<<TRUE, FALSE>>, <<FALSE, FALSE>>, <<TRUE, TRUE>>}}

\* "send it" and "Save the Rep".
Prompts ==
    {<<<<"s", "e", "n", "d">>, <<"i", "t">>>>,
     <<<<"S", "a", "v", "e">>, <<"t", "h", "e">>, <<"R", "e", "p">>>>}

\* A page: whether find_all succeeds, its elements, and the one read that fails,
\* if any, which is a read of the first element.
Pages ==
    {[find_ok |-> TRUE, elems |-> es, failAt |-> 0, fails |-> k] :
        es \in UNION {[1..n -> Elements] : n \in 0..MaxCands},
        k \in FailKinds \cup {NoFailure}}
    \cup {[find_ok |-> FALSE, elems |-> <<>>, failAt |-> 0, fails |-> NoFailure]}

\* What call_openai_for_dom_decision can come to: an error, no id, an id.
Decisions ==
    {[kind |-> "err", id |-> 0], [kind |-> "none", id |-> 0]}
    \cup {[kind |-> "some", id |-> i] : i \in 0..MaxCands}

NoIdx == -1

InitDom ==
    /\ InitEngineIdle
    /\ InitRestIdle
    /\ geom = NoGeom
    /\ agg = NoAgg
    /\ backoff = NoBackoff
    /\ \E page \in Pages, prompt \in Prompts :
          /\ page.fails # NoFailure => page.elems # <<>>
          /\ dom = [pc |-> "start", page |-> page, prompt |-> prompt, cands |-> <<>>,
                    decision |-> [kind |-> "none", id |-> 0], idx |-> NoIdx,
                    heuristic |-> FALSE]

domRest == <<geom, agg, backoff, tracker, threshold, rlVars, histVars, lock, engineVars>>

\* openai_client.rs 725-728: the candidates are collected; an error or an empty
\* list ends the call.
Collect ==
    /\ dom.pc = "start"
    /\ LET got == collect_ui_candidates(dom.page, Cap) IN
          dom' = [dom EXCEPT !.cands = got.cands,
                             !.pc = IF ~got.ok THEN "collect_err"
                                    ELSE IF got.cands = <<>> THEN "no_candidates"
                                    ELSE "collected"]
    /\ UNCHANGED domRest

\* openai_client.rs 731-755: the model's decision arrives and the index is resolved.
Decide ==
    /\ dom.pc = "collected"
    /\ \E d \in Decisions :
          LET useId == d.kind = "some" /\ IdInRange(d.id, Len(dom.cands)) IN
          dom' = [dom EXCEPT
                     !.decision = d,
                     !.heuristic = ~useId,
                     !.idx = IF useId THEN d.id
                             ELSE choose_best_by_heuristic(dom.prompt, dom.cands),
                     !.pc = "resolved"]
    /\ UNCHANGED domRest

NextDom == Collect \/ Decide

SpecDom == InitDom /\ [][NextDom]_vars

\* collect_ui_candidates alone, called on a page with a cap: a cap below, at and
\* above the number of elements, and the cap of click_by_llm_dom_first.
CollectCaps == (0..MaxCands) \cup {Cap}

InitCollect ==
    /\ InitEngineIdle
    /\ InitRestIdle
    /\ geom = NoGeom
    /\ agg = NoAgg
    /\ backoff = NoBackoff
    /\ dom \in [pc : {"collect_call"}, page : Pages, cap : CollectCaps,
                 out : {[ok |-> FALSE, cands |-> <<>>]}]

CallCollect ==
    /\ dom.pc = "collect_call"
    /\ dom' = [dom EXCEPT !.pc = "collect_done",
                          !.out = collect_ui_candidates(dom.page, dom.cap)]
    /\ UNCHANGED domRest

NextCollect == CallCollect

SpecCollect == InitCollect /\ [][NextCollect]_vars

(***************************************************************************)
(* Properties of the vision-model entry points.                            *)
(***************************************************************************)
\* The sample tasks that have been joined, and those of them that brought a point.
JoinedSamples == {i \in TaskIds : tasks[i].pc = "joined"}

SuccessfulSamples == {i \in JoinedSamples : tasks[i].result.ok}

\* The points of the successful samples among tasks 0..n-1, by task index.
RECURSIVE SamplePointsUpTo(_)
SamplePointsUpTo(n) ==
    IF n = 0 THEN <<>>
    ELSE IF (n - 1) \in SuccessfulSamples
         THEN Append(SamplePointsUpTo(n - 1), tasks[n - 1].result.pt)
         ELSE SamplePointsUpTo(n - 1)

\* C6: when call_openai_for_point has returned, all N = samples tasks were joined;
\* it returned an error exactly when every one of them failed, and otherwise it
\* returned the aggregate of the points of exactly the samples that succeeded.
C6_PointFailsIffAllSamplesFailed ==
    (call.fn = "point" /\ call.pc = "returned")
    => /\ Cardinality(JoinedSamples) = samples
       /\ ~call.outcome.ok <=> SuccessfulSamples = {}
       /\ ~call.outcome.ok => call.outcome.msg = "All OpenAI samples failed"
       /\ call.outcome.ok
          => call.outcome.pt = aggregate_points(SamplePointsUpTo(MaxSamples))

\* A call that returned a point although one of its samples failed.
C6_Witness ==
    /\ call.fn = "point"
    /\ call.pc = "returned"
    /\ call.outcome.ok
    /\ SuccessfulSamples # {}
    /\ SuccessfulSamples # JoinedSamples

\* C9: an entry point that found should_pause() true on entry has, by the time it
\* is past its entry block (call_openai_for_point: before any sample is spawned;
\* the three request functions: before their first HTTP request), slept the whole
\* pause duration and then reset the counter to 0.
C9_PauseAndResetBeforeFirstRequest ==
    /\ (call.pausedAtEntry /\ call.pc \in {"spawn", "joining", "returned"})
       => /\ call.pauseSlept = get_pause_duration(tracker)
          /\ call.cfAfterPause = 0
    /\ (\E i \in TaskIds : tasks[i].sent) /\ call.fn = "point" /\ call.pausedAtEntry
       => call.pauseSlept = get_pause_duration(tracker) /\ call.cfAfterPause = 0
    /\ \A i \in TaskIds :
          (tasks[i].pausedAtEntry /\ tasks[i].pc \notin {"entry", "pausing"})
          => /\ tasks[i].pauseSlept = get_pause_duration(tracker)
             /\ tasks[i].cfAfterPause = 0

\* With the default threshold: call_openai_for_point paused on entry and one of its
\* samples has sent a request; and a request function of its own paused and sent.
C9_Witness ==
    /\ threshold = DefaultThreshold
    /\ \/ /\ call.fn = "point"
          /\ call.pausedAtEntry
          /\ \E i \in TaskIds : tasks[i].sent
       \/ /\ call.fn \in {"dom", "bool"}
          /\ tasks[0].pausedAtEntry
          /\ tasks[0].sent

\* C10: in the three request loops a response with a success status has reset
\* consecutive_failures to 0 when its status was looked at, whatever its body turns
\* out to be.
C10_SuccessStatusResetsCounter ==
    \A i \in TaskIds :
        tasks[i].lastStatus \in SuccessStatus => tasks[i].cfAfterResp = 0

\* A response with a success status whose content does not parse arrived while the
\* counter was positive.
C10_Witness ==
    \E i \in TaskIds :
        /\ tasks[i].lastStatus \in {"ok_badcontent", "ok_badjson", "ok_nochoices"}
        /\ tasks[i].cfBeforeResp > 0
        /\ tasks[i].cfAfterResp = 0

\* C11: a 429 response has incremented consecutive_failures when it was handled,
\* in each of the three request loops.
C11_Every429IncrementsCounter ==
    \A i \in TaskIds :
        tasks[i].lastStatus = "s429"
        => tasks[i].cfAfterResp = tasks[i].cfBeforeResp + 1

\* The request loops that run or have returned and are not yet joined.
RequestLoops == {i \in TaskIds : tasks[i].pc \notin {"unspawned", "joined"}}

\* C28: a request loop sends at most max_retries requests, a 429 counting as one;
\* it returns Ok only on a response that parsed, so that max_retries failed
\* attempts end in an error; with max_retries = 0 it sends nothing and the
\* result is an error.
C28_AtMostMaxRetriesRequests ==
    \A i \in RequestLoops :
        /\ tasks[i].requests <= max_retries
        /\ (tasks[i].pc = "finished" /\ tasks[i].result.ok)
              => tasks[i].lastStatus = "ok_good" /\ tasks[i].requests >= 1
        /\ max_retries = 0
              => /\ tasks[i].requests = 0
                 /\ tasks[i].pc \in {"entry", "pausing", "finished"}

\* A loop that has returned an error after max_retries requests, the last one
\* answered 429.
C28_Witness ==
    \E i \in RequestLoops :
        /\ max_retries = MaxRetries
        /\ tasks[i].pc = "finished"
        /\ tasks[i].requests = max_retries
        /\ tasks[i].lastStatus = ""
        /\ ~tasks[i].result.ok
        /\ tasks[i].result.msg = ExhaustedMsg(LoopFn, [IdleLoop EXCEPT !.rate_limited = TRUE])

\* C29: a success response whose body is not the envelope, whose choices are
\* empty or whose content does not parse is one failed attempt: the loop that
\* returns after it has used all max_retries attempts.
C29_MalformedOutputIsRetried ==
    \A i \in RequestLoops :
        (/\ tasks[i].pc = "finished"
         /\ tasks[i].lastStatus \in {"ok_badjson", "ok_nochoices", "ok_badcontent"})
        => tasks[i].requests = max_retries

\* The sample tasks spawned and not yet joined.
InFlightSamples == {i \in TaskIds : tasks[i].pc \notin {"unspawned", "joined"}}

\* C12: during a call_openai_for_point call the sample tasks in flight are never
\* more than max_conc.
C12_InFlightNeverExceedsConcurrency ==
    call.fn = "point" => Cardinality(InFlightSamples) <= max_conc

\* More samples than the pool holds: a task was joined and replaced, and the pool
\* is full again.
C12_Witness ==
    /\ call.fn = "point"
    /\ call.pc = "joining"
    /\ samples > max_conc
    /\ JoinedSamples # {}
    /\ Cardinality(InFlightSamples) = max_conc

\* C13: once the first batch is spawned, the tasks launched are the first
\* min(N, C) plus one per joined task, up to N; the launched tasks are the first
\* `launched` indices; and when the call has returned, N tasks were launched and
\* every one of them was joined.
C13_LaunchesAndJoinsExactlyN ==
    (call.fn = "point" /\ call.pc \in {"joining", "returned"})
    => /\ call.launched =
             (IF max_conc + Cardinality(JoinedSamples) <= samples
              THEN max_conc + Cardinality(JoinedSamples) ELSE samples)
       /\ InFlightSamples \cup JoinedSamples = {i \in TaskIds : i < call.launched}
       /\ call.pc = "returned"
          => /\ call.launched = samples
             /\ InFlightSamples = {}
             /\ Cardinality(JoinedSamples) = samples

\* A call with more samples than the pool holds has returned.
C13_Witness ==
    /\ call.fn = "point"
    /\ call.pc = "returned"
    /\ samples > max_conc
    /\ Cardinality(JoinedSamples) = samples

\* C14: the guard of the tracker's Mutex is alive only inside one
\* with_rate_limit_tracker call: a task suspended in a sleep or in an HTTP await
\* never holds it, so whoever holds it is a task running its closure.
C14_LockNeverHeldAcrossAwait ==
    /\ \A i \in TaskIds : tasks[i].pc \in AwaitPcs \cup WantPcs => lock # i
    /\ lock # LockFree => tasks[lock].pc \in InPcs

\* A task holds the guard, running its closure, while another task is suspended
\* in its pause, in its HTTP request or in a sleep.
C14_Witness ==
    \E i, j \in TaskIds :
        /\ i # j
        /\ tasks[i].pc \in {"pausing", "inflight", "sleeping"}
        /\ lock = j
        /\ tasks[j].pc \in InPcs

(***************************************************************************)
(* Properties of viewport_to_screen.                                       *)
(***************************************************************************)
PositiveDims ==
    /\ geom.inputs.screenshot_w > 0
    /\ geom.inputs.screenshot_h > 0
    /\ geom.inputs.window_w > 0
    /\ geom.inputs.window_h > 0

\* C15: for positive dimensions and nudges of 0, viewport_to_screen returns a
\* point of the window's box, for every viewport point.
C15_ResultInsideWindow ==
    (geom.called /\ geom.done /\ PositiveDims /\ geom.nudge = <<0, 0>>)
    => /\ ~geom.out.panicked
       /\ geom.inputs.window_x <= geom.out.x
       /\ geom.out.x < geom.inputs.window_x + geom.inputs.window_w
       /\ geom.inputs.window_y <= geom.out.y
       /\ geom.out.y < geom.inputs.window_y + geom.inputs.window_h

\* C16: with a dimension <= 0, viewport_to_screen returns exactly
\* (window_x, window_y), whatever the viewport point and the nudges.
C16_DegenerateReturnsWindowOrigin ==
    (geom.called /\ geom.done /\ ~PositiveDims)
    => geom.out = Returned(geom.inputs.window_x, geom.inputs.window_y)

\* Only the window is degenerate, the point is not the origin and nudges are set.
C16_Witness ==
    /\ geom.called
    /\ geom.done
    /\ geom.inputs.screenshot_w > 0
    /\ geom.inputs.screenshot_h > 0
    /\ geom.inputs.window_w <= 0
    /\ geom.x_view = MaxDim
    /\ geom.nudge # <<0, 0>>
    /\ geom.out = Returned(geom.inputs.window_x, geom.inputs.window_y)

\* C17: for positive dimensions viewport_to_screen returns: the drawn image is at
\* least 1 on each axis, so no clamp range is empty.
C17_NeverAborts ==
    (geom.called /\ geom.done /\ PositiveDims)
    => /\ ~geom.out.panicked
       /\ Drawn(geom.inputs.screenshot_w, ScaleOf(geom.inputs)) >= 1
       /\ Drawn(geom.inputs.screenshot_h, ScaleOf(geom.inputs)) >= 1

(***************************************************************************)
(* Properties of aggregate_points.                                         *)
(***************************************************************************)
AggXs == [i \in 1..Len(agg.points) |-> agg.points[i].x]

AggYs == [i \in 1..Len(agg.points) |-> agg.points[i].y]

\* m is total / n truncated toward zero, stated without a division.
IsTruncatedMean(m, total, n) ==
    IF total >= 0 THEN m * n <= total /\ total < (m + 1) * n
    ELSE (m - 1) * n < total /\ total <= m * n

\* C18: aggregate_points on a list of exactly one point p returns p.x, p.y and
\* p.double.
C18_SinglePointUnchanged ==
    (agg.called /\ agg.done /\ Len(agg.points) = 1) => agg.out = agg.points[1]

\* A single far point with the double flag set.
C18_Witness ==
    /\ agg.called
    /\ agg.done
    /\ Len(agg.points) = 1
    /\ agg.points[1].x = -FarCoord
    /\ agg.points[1].double
    /\ agg.out = agg.points[1]

\* C19: four samples whose x values are 10, 10, 10 and 1000 (in any order)
\* aggregate to x = 10: the 1000 is discarded as an outlier.
C19_OutlierDiscarded ==
    (agg.called /\ agg.done /\ SortSeq(AggXs, <) = <<10, 10, 10, 1000>>)
    => agg.out.x = 10

DoubleVotes == Cardinality({i \in 1..Len(agg.points) : agg.points[i].double})

\* C21: the double flag returned is true exactly when at least half of all the
\* samples given have double = true; a tie yields true, and a sample whose
\* coordinate is discarded as an outlier still votes.
C21_DoubleIsMajorityOfAll ==
    (agg.called /\ agg.done)
    => (agg.out.double <=> 2 * DoubleVotes >= Len(agg.points))

\* Four samples, two of them double; one of the two is the low x outlier that
\* the filter discards (the x returned is 10, the value of the other three).
C21_Witness ==
    /\ agg.called
    /\ agg.done
    /\ Len(agg.points) = 4
    /\ DoubleVotes = 2
    /\ \E i \in 1..4 :
          /\ agg.points[i].x = -FarCoord
          /\ agg.points[i].double
          /\ \A j \in (1..4) \ {i} : agg.points[j].x = 10
    /\ agg.out.x = 10
    /\ agg.out.double

\* The reorderings of a list of n samples, for each n.
Reorderings ==
    [n \in 1..MaxPoints |->
        {f \in [1..n -> 1..n] : \A i, j \in 1..n : f[i] = f[j] => i = j}]

Reordered(points, f) == [i \in 1..Len(points) |-> points[f[i]]]

\* An order on sample points, to name one list for each collection of samples.
PointLeq(p, q) ==
    \/ p.x < q.x
    \/ p.x = q.x /\ p.y < q.y
    \/ p.x = q.x /\ p.y = q.y /\ (p.double => q.double)

Ascending(points) ==
    \A i, j \in 1..Len(points) : i < j => PointLeq(points[i], points[j])

\* C22: every reordering of a list of samples aggregates to the same x, y and
\* double as the list itself.  Each collection of samples is taken in ascending
\* order and compared with all of its reorderings.
C22_PermutationInvariant ==
    (agg.called /\ agg.done /\ Ascending(agg.points))
    => \A f \in Reorderings[Len(agg.points)] :
          aggregate_points(Reordered(agg.points, f)) = agg.out

\* Four distinct samples, the first of which the filter discards.
C22_Witness ==
    /\ agg.called
    /\ agg.done
    /\ Len(agg.points) = 4
    /\ agg.points[1].x = -FarCoord
    /\ agg.points[2].x = -7
    /\ agg.points[3].x = 10
    /\ agg.points[4].x = 1000
    /\ agg.points[1].double # agg.points[2].double
    /\ agg.out.x = 334

\* The reference of the IQR filter for the values xs: the sorted values, the
\* quartiles at n/4 and 3n/4, and the values within one and a half IQR of the
\* quartiles, the bounds taken exactly (everything doubled).
RefSorted(xs) == SortSeq(xs, <)

RefQ1(xs) == RefSorted(xs)[(Len(xs) \div 4) + 1]

RefQ3(xs) == RefSorted(xs)[((3 * Len(xs)) \div 4) + 1]

RefKept(xs) ==
    SelectSeq(RefSorted(xs),
              LAMBDA x : /\ 2 * x >= 2 * RefQ1(xs) - 3 * (RefQ3(xs) - RefQ1(xs))
                         /\ 2 * x <= 2 * RefQ3(xs) + 3 * (RefQ3(xs) - RefQ1(xs)))

Filtered(xs) ==
    LET v == SortSeq(xs, <)
        n == Len(v)
        q1 == v[(n \div 4) + 1]
        q3 == v[((3 * n) \div 4) + 1]
    IN  SelectInRange(v, q1 - IqrMargin(q3 - q1), q3 + IqrMargin(q3 - q1))

GivingHeaders == {k \in 1..Len(HeaderKeys) : HeaderMs(backoff.headers[k]) # None}

\* C30: the wait after a 429 is the value of the first header that gives one;
\* else the seconds that the body's "Please try again in" phrase states; else,
\* and only then, min(600 * (attempt + 1), 8000) ms, which does not decrease
\* with the attempt and is at most 8000.
C30_WaitByStrictPriority ==
    (backoff.called /\ backoff.done)
    => IF GivingHeaders # {}
       THEN \E k \in GivingHeaders :
               /\ \A j \in GivingHeaders : k <= j
               /\ backoff.out = HeaderMs(backoff.headers[k])
       ELSE IF backoff.body.states # None
            THEN backoff.out = backoff.body.states
            ELSE /\ backoff.out = Min(600 * (backoff.attempt + 1), 8000)
                 /\ backoff.out <= 8000
                 /\ \A a \in 0..backoff.attempt : Fallback(a) <= backoff.out

(***************************************************************************)
(* Properties of the candidate selection.                                  *)
(***************************************************************************)
\* The indices, from 0, of the candidates that are visible and not disabled.
ShownIdx == {i \in 0..(Len(dom.cands) - 1) :
                dom.cands[i + 1].visible /\ ~dom.cands[i + 1].disabled}

\* The score and the area of every candidate, by index from 0.
Scores ==
    [i \in 0..(Len(dom.cands) - 1) |->
        rank_score(dom.prompt, dom.cands[i + 1].meta, dom.cands[i + 1].rect)]

Areas == [i \in 0..(Len(dom.cands) - 1) |-> Area(dom.cands[i + 1].rect)]

\* Candidate i comes before candidate j: score descending, then area descending,
\* then index ascending.
Precedes(sc, ar, i, j) ==
    \/ sc[i] > sc[j]
    \/ sc[i] = sc[j] /\ ar[i] > ar[j]
    \/ sc[i] = sc[j] /\ ar[i] = ar[j] /\ i < j

HeuristicChose == dom.pc = "resolved" /\ dom.heuristic

\* C23: the heuristic called again with the same prompt and candidates returns
\* the index it returned, and that index is the first of the visible, enabled
\* candidates by score descending, area descending, index ascending.
C23_HeuristicDeterministicTotalOrder ==
    HeuristicChose
    => /\ dom.idx = choose_best_by_heuristic(dom.prompt, dom.cands)
       /\ ShownIdx # {}
             => /\ dom.idx \in ShownIdx
                /\ LET sc == Scores
                       ar == Areas
                   IN  \A j \in ShownIdx \ {dom.idx} : Precedes(sc, ar, dom.idx, j)

\* Two eligible candidates of one score, the second of the larger area: the
\* second is chosen.
C23_Witness ==
    /\ HeuristicChose
    /\ ShownIdx = {0, 1}
    /\ Scores[0] = Scores[1]
    /\ Areas[0] < Areas[1]
    /\ dom.idx = 1

\* C24: the model's id is used exactly when the decision arrived with an id
\* less than the number of candidates; otherwise the heuristic chooses; the
\* index clicked is within [0, number of candidates).
C24_IdOnlyWhenInRange ==
    dom.pc = "resolved"
    => /\ ~dom.heuristic
             <=> (dom.decision.kind = "some" /\ dom.decision.id < Len(dom.cands))
       /\ ~dom.heuristic => dom.idx = dom.decision.id
       /\ dom.heuristic => dom.idx = choose_best_by_heuristic(dom.prompt, dom.cands)
       /\ 0 <= dom.idx
       /\ dom.idx < Len(dom.cands)

\* The model answered with the id just past the end of the list.
C24_Witness ==
    /\ dom.pc = "resolved"
    /\ dom.decision.kind = "some"
    /\ dom.decision.id = Len(dom.cands)
    /\ dom.heuristic
    /\ dom.idx = Len(dom.cands) - 1

\* C25: the heuristic returns a visible, enabled candidate when there is one,
\* and index 0 when there is none.
C25_HeuristicSkipsHiddenAndDisabled ==
    HeuristicChose
    => IF ShownIdx # {} THEN dom.idx \in ShownIdx ELSE dom.idx = 0

\* The better-scoring candidate is disabled; the other one is chosen.
C25_Witness ==
    /\ HeuristicChose
    /\ Len(dom.cands) = 2
    /\ dom.cands[1].visible
    /\ dom.cands[1].disabled
    /\ Scores[0] > Scores[1]
    /\ dom.idx = 1

\* C26: collect_ui_candidates fails only when find_all fails; a read of one
\* element that fails leaves a default and the element is returned.
C26_OnlyQueryFailureFailsCollection ==
    /\ dom.pc = "collect_err" => ~dom.page.find_ok
    /\ dom.pc \in {"collected", "resolved"}
          => Len(dom.cands) = Min(Len(dom.page.elems), Cap)

(***************************************************************************)
(* Properties of the step engine.                                          *)
(***************************************************************************)
TopIdx(e) == e.path[1][1]

Depth(e) == Len(e.path)

\* The first BeginClient sentinel after plan index i; 0 when there is none.
NextBegin(i) ==
    LET later == {n \in (i + 1)..Len(plan) : plan[n].kind = "BeginClient"} IN
    IF later = {} THEN 0 ELSE CHOOSE n \in later : \A m \in later : n <= m

\* The list that the last frame of a path indexes, and the step at a path.
RECURSIVE ListAt(_)
ListAt(path) ==
    IF Len(path) = 1 THEN plan
    ELSE LET parent == SubSeq(path, 1, Len(path) - 1)
             owner == ListAt(parent)[parent[Len(parent)][1]]
         IN  validation_actions(owner, path[Len(path)][2] = "true")

StepAt(path) == ListAt(path)[path[Len(path)][1]]

\* The step at path p has been executed or is the step about to be.
Begun(p) == (\E j \in 1..Len(trace) : trace[j].path = p) \/ (pc = "exec" /\ CurPath = p)

\* C27: the corrective list of a step for answer a is executed, in order, exactly
\* when the step's primitive action succeeded, the step has a question and the
\* validation answered a; a step whose primitive action failed is not validated.
C27_CorrectiveListIffAnswered ==
    \A k \in 1..Len(trace) :
        LET e == trace[k]
            step == StepAt(e.path)
        IN  /\ e.val # "none" => e.ok /\ ~e.failed /\ validation_question(step)
            /\ \A a \in {"true", "false"} :
                  Begun(Append(e.path, <<1, a>>))
                  <=> /\ e.ok
                      /\ ~e.failed
                      /\ validation_question(step)
                      /\ e.val = a
                      /\ validation_actions(step, a = "true") # <<>>
            /\ (Depth(e) > 1 /\ e.path[Depth(e)][1] > 1)
                  => \E j \in 1..(k - 1) :
                        /\ trace[j].ok
                        /\ trace[j].path =
                              [e.path EXCEPT ![Depth(e)] =
                                  <<e.path[Depth(e)][1] - 1, e.path[Depth(e)][2]>>]

\* C1: after a StopClient step executed three corrective levels deep, the next step
\* executed is the next BeginClient sentinel of the flat plan: no sibling, no
\* parent-level corrective step and no top-level step in between is executed.
C1_StopClientDepth3SkipsToNextClient ==
    \A i \in 1..(Len(trace) - 1) :
        (trace[i].kind = "StopClient" /\ Depth(trace[i]) = 4)
        => /\ Depth(trace[i + 1]) = 1
           /\ TopIdx(trace[i + 1]) = NextBegin(TopIdx(trace[i]))

\* C2: once an Abort step is executed, at any depth, it stays the last step
\* executed: the error ABORT_PROGRAM is returned frame by frame and the run ends
\* with it.
C2_AbortEndsRun ==
    \A i \in 1..Len(trace) :
        trace[i].kind = "Abort"
        => /\ i = Len(trace)
           /\ pc \in {"ret_err", "failed"}
           /\ err = ABORT_PROGRAM
           /\ pc = "failed" => runResult = <<"Err", ABORT_PROGRAM>>

\* C2 witness: an Abort three corrective levels deep, with siblings and later
\* top-level steps left, has ended the run.
C2_Witness ==
    /\ pc = "failed"
    /\ runResult = <<"Err", ABORT_PROGRAM>>
    /\ Len(trace) > 0
    /\ trace[Len(trace)].kind = "Abort"
    /\ Depth(trace[Len(trace)]) = 4
    /\ trace[Len(trace)].path[2][2] = "true"
    /\ TopIdx(trace[Len(trace)]) < Len(plan)

\* C3: when a top-level step ends with the StopClient signal, the next step
\* executed is the first BeginClient sentinel after it, and none when there is no
\* such sentinel.
C3_StopClientSkipsToNextBeginClient ==
    \A i \in 1..(Len(trace) - 1) :
        trace[i].kind = "StopClient"
        => /\ Depth(trace[i + 1]) = 1
           /\ TopIdx(trace[i + 1]) = NextBegin(TopIdx(trace[i]))

\* C4: fail-fast: a step other than StopClient and Abort whose primitive action
\* failed is the last step executed, and the run ends with its error.
C4_FailFast ==
    \A i \in 1..Len(trace) :
        (trace[i].kind \notin SignalKinds /\ trace[i].failed)
        => /\ i = Len(trace)
           /\ pc \in {"ret_err", "failed"}
           /\ pc = "failed" => runResult = <<"Err", trace[i].msg>>

\* C5: a step is executed after a step that returned an error only when that
\* error was raised by a StopClient step, whatever the text of the error.
C5_OnlyStopClientStepContinues ==
    \A i \in 1..(Len(trace) - 1) :
        ~trace[i].ok => trace[i].kind = "StopClient"

(***************************************************************************)
(* call_openai_for_point as a whole.                                       *)
(***************************************************************************)
\* C31: with one sample per call, the point call_openai_for_point returns is the
\* single sample with CLICK_X_OFFSET_PX added to its x and CLICK_Y_OFFSET_PX added
\* to its y.
C31_SingleSampleGetsOffset ==
    (call.fn = "point" /\ call.pc = "returned" /\ samples = 1 /\ call.outcome.ok)
    => /\ call.outcome.pt.x = tasks[0].result.pt.x + call.x_off
       /\ call.outcome.pt.y = tasks[0].result.pt.y + call.y_off
       /\ call.outcome.pt.double = tasks[0].result.pt.double

\* C32: during a call_openai_for_point call the counter goes up only in the step
\* in which the call returns, and then by exactly 1; no step of a sample task
\* raises it; a call whose samples all failed raises it by 1 when it returns.
C32_AllFailedCountsOnce ==
    [][(call.fn = "point" /\ call.pc # "returned")
       => /\ tracker'.consecutive_failures > tracker.consecutive_failures
             => /\ call'.pc = "returned"
                /\ tracker'.consecutive_failures = tracker.consecutive_failures + 1
          /\ (call'.pc = "returned" /\ ~call'.outcome.ok)
             => tracker'.consecutive_failures = tracker.consecutive_failures + 1]_vars

\* Two samples, both of which failed after a 429, and a counter of 1.
C32_Witness ==
    /\ call.fn = "point"
    /\ call.pc = "returned"
    /\ ~call.outcome.ok
    /\ call.total_failures = 2
    /\ call.rate_limit_failures = 2
    /\ tracker.consecutive_failures = 1

\* The samples of the call that failed, and those of them whose error the call
\* takes for rate limiting.
FailedSamples == {i \in TaskIds : tasks[i].pc = "joined" /\ ~tasks[i].result.ok}

RateLimitedSamples ==
    {i \in FailedSamples : tasks[i].result.msg \in {"OpenAI request failed (rate limited)",
                                                     "opaque rate"}}

\* C33: a call_openai_for_point call that returns a point raises the counter only
\* if more than half of its failed samples were rate-limit related, and otherwise
\* sets it to 0.
C33_FailureOnlyForMajorityRateLimited ==
    [][(call.fn = "point" /\ call.pc = "joining" /\ call'.pc = "returned"
            /\ call'.outcome.ok)
       => IF 2 * Cardinality(RateLimitedSamples) > Cardinality(FailedSamples)
          THEN tracker'.consecutive_failures \in {0, tracker.consecutive_failures + 1}
          ELSE tracker'.consecutive_failures = 0]_vars

\* C35: a call_openai_for_point call goes from its pause check to the spawning of
\* samples, to the joining of samples, to its return, in that order; it returns a
\* point or the error of all samples having failed; and every call that was
\* entered does return.
C35_PointCallEnds ==
    /\ [][call.fn = "point" /\ call'.pc # call.pc
           => \/ call.pc = "entry" /\ call'.pc \in {"pausing", "spawn"}
              \/ call.pc = "pausing" /\ call'.pc = "spawn"
              \/ call.pc = "spawn" /\ call'.pc = "joining"
              \/ /\ call.pc = "joining"
                 /\ call'.pc = "returned"
                 /\ call'.outcome.done
                 /\ ~call'.outcome.ok => call'.outcome.msg = "All OpenAI samples failed"
              \/ call.pc = "returned" /\ call'.pc \in {"entry", "looping"}]_vars
    /\ (call.fn = "point" /\ call.pc = "entry")
          ~> (call.fn = "point" /\ call.pc = "returned")

\* A call that paused at its entry, took two samples, one of them after a 429
\* wait, and returned a point.
C35_Witness ==
    /\ call.fn = "point"
    /\ call.pc = "returned"
    /\ call.pausedAtEntry
    /\ call.outcome.ok
    /\ Len(call.results) = 1
    /\ call.rate_limit_failures = 1
    /\ samples = 2

\* C37: for a threshold of at least 1, with the entry points called one after
\* another, consecutive_failures is never above the threshold, and whenever a
\* request loop sends an HTTP request consecutive_failures is below the threshold.
C37_CounterBoundedByThreshold ==
    /\ [](threshold >= 1 => tracker.consecutive_failures <= threshold)
    /\ [][(threshold >= 1
            /\ \E i \in TaskIds : tasks[i].pc # "inflight" /\ tasks'[i].pc = "inflight")
           => tracker'.consecutive_failures < threshold]_vars

\* ask_boolean_question finds the counter at the threshold of 2 and pauses.
C37_Witness ==
    /\ threshold = 2
    /\ tracker.consecutive_failures = 2
    /\ call.fn = "bool"
    /\ tasks[0].pc = "pausing"

(***************************************************************************)
(* The step engine: validation that fails, and runs without a              *)
(* vision-model configuration.                                             *)
(***************************************************************************)
\* The step at path q is the one that follows the step at path p once that step
\* and the lists it ended have returned Ok: one index on, in the list of p or in
\* a list around it.
FollowsInOrder(p, q) ==
    /\ Len(q) <= Len(p)
    /\ \A j \in 1..(Len(q) - 1) : q[j] = p[j]
    /\ q[Len(q)] = <<p[Len(q)][1] + 1, p[Len(q)][2]>>

\* C36: a step whose validation question call failed counts as completed: the
\* step executed next, if any, is the one that follows it in order and no
\* corrective step of it, and until then no error is being returned.
C36_FailedQuestionCompletesStep ==
    \A k \in 1..Len(trace) :
        trace[k].val = "ask_err"
        => /\ k < Len(trace) => FollowsInOrder(trace[k].path, trace[k + 1].path)
           /\ k = Len(trace)
              => /\ pc \in {"ret_ok", "exec", "done"}
                 /\ runResult \in {<<>>, <<"Ok">>}
                 /\ pc = "done" => trace[k].path[1][1] = Len(plan)

\* The question of a corrective step at depth 2 failed, and the corrective step
\* after it was executed.
C36_Witness ==
    \E k \in 1..(Len(trace) - 1) :
        /\ trace[k].val = "ask_err"
        /\ Len(trace[k].path) = 2
        /\ trace[k + 1].path = <<trace[k].path[1], <<trace[k].path[2][1] + 1,
                                                     trace[k].path[2][2]>>>>

\* C39: without a configuration every ClickByDom and ClickByLlm step returns Ok
\* without clicking, no step is validated, no corrective step is executed, and the
\* step after a click step is the next step of the plan.
C39_NoConfigSkipsClicksAndValidation ==
    ~openai_cfg
    => \A k \in 1..Len(trace) :
          /\ trace[k].val = "none"
          /\ Len(trace[k].path) = 1
          /\ trace[k].kind \in {"ClickByDom", "ClickByLlm"}
             => /\ trace[k].ok
                /\ trace[k].skipped
                /\ k < Len(trace)
                   => trace[k + 1].path = <<<<trace[k].path[1][1] + 1, "plan">>>>
                /\ k = Len(trace)
                   => /\ pc \in {"validate", "ret_ok", "exec", "done"}
                      /\ runResult \in {<<>>, <<"Ok">>}
                      /\ pc = "done" => trace[k].path[1][1] = Len(plan)

\* Without a configuration a ClickByLlm step that carries a question was skipped
\* and the second step of the plan was executed.
C39_Witness ==
    /\ ~openai_cfg
    /\ plan[1] = ValidatedClick
    /\ Len(trace) = 2
    /\ trace[1].skipped
    /\ trace[1].val = "none"
    /\ trace[2].path = <<<<2, "plan">>>>

(***************************************************************************)
(* Properties of collect_ui_candidates.                                    *)
(***************************************************************************)
\* C40: the list collect_ui_candidates returns holds at most cap candidates, and
\* the candidate at position i (from 0) carries the id i, so that the id of a
\* candidate is its index in the list.
C40_IdIsPosition ==
    (dom.pc = "collect_done" /\ dom.out.ok)
    => /\ Len(dom.out.cands) <= dom.cap
       /\ Len(dom.out.cands) <= Len(dom.page.elems)
       /\ \A i \in 0..(Len(dom.out.cands) - 1) : dom.out.cands[i + 1].meta.id = i
       /\ \A i \in 0..(Len(dom.out.cands) - 1) :
             dom.out.cands[i + 1].meta.text \in {dom.page.elems[i + 1].text, <<>>}

\* Two elements and a cap of 1: the list holds the first element with id 0.
C40_Witness ==
    /\ dom.pc = "collect_done"
    /\ dom.out.ok
    /\ Len(dom.page.elems) = 2
    /\ dom.cap = 1
    /\ Len(dom.out.cands) = 1
    /\ dom.out.cands[1].meta.id = 0

====
